---- MODULE Spec2Model ----
(***************************************************************************)
(* A model of the CTE engine (internal/engine/cte/engine.go), its event    *)
(* store, and the CTEL lien manager (internal/engine/ctel/manager.go).     *)
(*                                                                         *)
(* Threads of the engine part: one API client (thread 0) that calls the    *)
(* engine's public operations one after the other, and, for every event,   *)
(* the goroutine that StartEvent launches (thread e for event e).  Every   *)
(* action is one store operation (or one executor call) of a handler, so   *)
(* that the client's calls interleave with the background execution as     *)
(* they do in the program.                                                 *)
(*                                                                         *)
(* ExecutorSpec runs two validated events, each with one transaction, with *)
(* the executors of internal/engine/executors in place of the abstract     *)
(* executor; LedgerSpec is transactionServiceImpl.CreateEntry on the       *)
(* entries and entry_lines tables.                                         *)
(***************************************************************************)
EXTENDS Integers, Sequences, FiniteSets, Bags, TLC

\* ------------------------------------------------------------- bounds
MaxEvents == 1
MaxTx == 3
MaxDeps == 1

\* engine.go:38  maxRetries: 3
MaxRetries == 3

EventIds == 1..MaxEvents
TxIds == 1..MaxTx

\* The lien manager's part: liens, concurrent callers, the clock.
MaxLiens == 2
MaxTime == 1
LienIds == 1..MaxLiens
LienWorkers == {1, 2}
LienEvents == {1, 2}
Accounts == {"X"}
\* Amounts a caller asks to reserve (0 is refused by the input validation).
Amounts == {0, 40, 80, 120}
\* The raw available balance the account service reports for each account.
InitialBalance == [a \in Accounts |-> 100]

\* The account repository's part.
MaxAccounts == 2
AccountIds == 1..MaxAccounts
AccountNames == {"n1", "n2"}
AccountTypes == {"ASSET", "LIABILITY"}
Owners == {"u1", "u2"}
Currencies == {"USD", "EUR"}

\* The API client's thread and the background goroutines (one per event).
Client == 0
Tasks == EventIds
Threads == {Client} \cup Tasks

\* Transaction type tags: those with a registered executor, and (in TxTypes)
\* one with an executor and one without.
RegisteredTypes ==
    {"batch.operation", "wallet.transfer", "wallet.deposit", "wallet.withdrawal",
     "wallet.exchange"}
TxTypes == {"wallet.transfer", "unknown.type"}

VARIABLES
    events,     \* cte_events: event id -> persisted state ("NONE": no row)
    txs,        \* cte_transactions: tx id -> row
    th,         \* per thread: program counter and locals
    compInvoked,        \* history: txs whose Compensate has been called
    compErr,            \* history: txs whose Compensate returned an error
    completedAtRollback,\* history: txs persisted COMPLETED when their event
                        \* was persisted ROLLING_BACK
    liens,      \* cte_liens: lien id -> row
    lw,         \* per lien-manager caller: program counter and locals
    balance,    \* AccountService.GetAvailableBalance, per account
    now,        \* time.Now()
    availAtLastLien,    \* history: per account, the raw available balance
                        \* when its last lien was saved
    ledger,     \* entries with their entry_lines: the persisted entries
    entryResult,\* what the last create_entry call returned
    payload,    \* Transaction.Payload, per tx id
    result,     \* Transaction.Result, per tx id
    executed,   \* history: per tx id, how many times its executor's
                \* Execute has returned nil
    compensated,\* history: per tx id, how many times its executor's
                \* Compensate has returned nil
    accounts,   \* accounts: account id -> row (NoAccount: no row)
    accountResult,  \* what the last call of the account repository returned
    batch       \* the batch executor's call in progress: its loop, its
                \* goroutines and its channels

engineVars == <<events, txs, th, compInvoked, compErr, completedAtRollback>>
lienVars == <<liens, lw, balance, now, availAtLastLien>>
ledgerVars == <<ledger, entryResult>>
execVars == <<payload, result, executed, compensated>>
accountVars == <<accounts, accountResult>>
batchVars == <<batch>>
vars == <<engineVars, lienVars, ledgerVars, execVars, accountVars, batchVars>>

\* ------------------------------------------------------------- store rows
NoTx == [event |-> 0, order |-> 0, deps |-> <<>>, type |-> "none", state |-> "NONE"]

\* A thread at rest.  ret is what the thread's last call returned when that
\* was ErrInvalidEventState ("none" otherwise).
IdleThread ==
    [pc |-> "idle", ev |-> 0, seen |-> "NONE", ret |-> "none",
     txl |-> <<>>, attempt |-> 0, comps |-> <<>>, atFail |-> {}]

\* EventStore.GetEventTransactions: WHERE event_id = ?
EventTxIds(e) == {x \in TxIds : txs[x].state # "NONE" /\ txs[x].event = e}

RECURSIVE SortByOrder(_)
SortByOrder(S) ==
    IF S = {} THEN <<>>
    ELSE LET m == CHOOSE x \in S : \A y \in S : txs[x].order <= txs[y].order
         IN  <<m>> \o SortByOrder(S \ {m})

\* EventStore.GetEventTransactions: ORDER BY "order" ASC
GetEventTransactions(e) == SortByOrder(EventTxIds(e))

RECURSIVE Reverse(_)
Reverse(s) == IF s = <<>> THEN <<>> ELSE Reverse(Tail(s)) \o <<Head(s)>>

RECURSIVE SelectCompleted(_)
SelectCompleted(s) ==
    IF s = <<>> THEN <<>>
    ELSE IF txs[Head(s)].state = "COMPLETED"
         THEN <<Head(s)>> \o SelectCompleted(Tail(s))
         ELSE SelectCompleted(Tail(s))

\* A slip in that loop: i from 0 up to len-1.
CompensationListMutant(e) == SelectCompleted(GetEventTransactions(e))

\* compensateEvent's loop: i from len-1 down to 0, skipping every
\* transaction whose loaded state is not COMPLETED.
CompensationList(e) == SelectCompleted(Reverse(GetEventTransactions(e)))

\* checkDependencies: the dependencies are read in list order; the first one
\* that is absent gives a plain error, the first one that is not COMPLETED
\* gives ErrTransactionDependencyNotMet.
RECURSIVE checkDeps(_)
checkDeps(d) ==
    IF d = <<>> THEN "ok"
    ELSE IF Head(d) \notin TxIds \/ txs[Head(d)].state = "NONE" THEN "missing"
    ELSE IF txs[Head(d)].state # "COMPLETED" THEN "notmet"
    ELSE checkDeps(Tail(d))

checkDependencies(x) == checkDeps(txs[x].deps)

\* Dependency lists a caller can give: identifiers without repetition.
DepLists ==
    {s \in UNION {[1..n -> TxIds] : n \in 0..MaxDeps} :
        \A i, j \in DOMAIN s : i # j => s[i] # s[j]}

\* uuid.New(): an identifier no row has yet
FreshEvent == CHOOSE e \in EventIds : events[e] = "NONE" /\ \A f \in EventIds : f < e => events[f] # "NONE"
FreshTx == CHOOSE x \in TxIds : txs[x].state = "NONE" /\ \A y \in TxIds : y < x => txs[y].state # "NONE"

NoLien == [event |-> 0, account |-> "none", amount |-> 0, expires |-> 0, state |-> "NONE"]

IdleWorker ==
    [pc |-> "idle", lien |-> 0, event |-> 0, account |-> "none", amount |-> 0,
     expires |-> 0, available |-> 0, state |-> "NONE", ret |-> "none"]

\* A row of the accounts table (id, name, type, user_id, currency,
\* updated_at); NoAccount stands for "no row" and for a nil *Account.
NoAccount == [id |-> 0, name |-> "", type |-> "", owner |-> "", currency |-> "", updated |-> 0]
NoResult == [op |-> "none", err |-> "none", account |-> NoAccount]

\* No call of the batch executor is in progress.
IdleBatch ==
    [op |-> "none", pc |-> "idle", children |-> <<>>, i |-> 0, wg |-> 0, sem |-> 0,
     running |-> EmptyBag, holding |-> 0, exiting |-> 0, results |-> <<>>,
     closer |-> "none", successful |-> 0, failed |-> 0, total |-> 0,
     status |-> "none", ret |-> "none", returnedNil |-> 0, returnedErr |-> 0]

\* A transaction's payload: the fields that the executors read.
NoPayload == [account |-> "none", dest |-> "none", amount |-> 0, children |-> <<>>]

SetTh(t, r) == th' = [th EXCEPT ![t] = r]
Return(ret) == [IdleThread EXCEPT !.ret = ret]

\* ------------------------------------------------------------- Init
Init ==
    /\ events = [e \in EventIds |-> "NONE"]
    /\ txs = [x \in TxIds |-> NoTx]
    /\ th = [t \in Threads |-> IdleThread]
    /\ compInvoked = {}
    /\ compErr = {}
    /\ completedAtRollback = {}
    /\ liens = [l \in LienIds |-> NoLien]
    /\ lw = [w \in LienWorkers |-> IdleWorker]
    /\ balance = InitialBalance
    /\ now = 0
    /\ availAtLastLien = InitialBalance
    /\ ledger = {}
    /\ entryResult = "none"
    /\ payload = [x \in TxIds |-> NoPayload]
    /\ result = [x \in TxIds |-> "none"]
    /\ executed = [x \in TxIds |-> 0]
    /\ compensated = [x \in TxIds |-> 0]
    /\ accounts = [i \in AccountIds |-> NoAccount]
    /\ accountResult = NoResult
    /\ batch = IdleBatch

History == <<compInvoked, compErr, completedAtRollback>>

\* ------------------------------------------------------------- public API
\* Engine.CreateEvent: SaveEvent of a new event in state CREATED.
CreateEvent(c) ==
    /\ th[c].pc = "idle"
    /\ \E e \in EventIds : events[e] = "NONE"
    /\ events' = [events EXCEPT ![FreshEvent] = "CREATED"]
    /\ SetTh(c, Return("none"))
    /\ UNCHANGED <<txs, History, lienVars, ledgerVars, execVars, accountVars, batchVars>>

\* A slip in that check: only finished events refuse a transaction.
CanAddTransactionMutant(s) == s \notin {"COMPLETED", "ROLLED_BACK"}

\* Engine.AddTransaction, line 93: the states in which a transaction may be
\* added.
CanAddTransaction(s) == s = "CREATED" \/ s = "VALIDATING"

\* A slip in that check: an event still being validated may be started.
CanStartEventMutant(s) == s = "VALIDATED" \/ s = "VALIDATING"

\* Engine.StartEvent, line 131: the state in which an event may be started.
CanStartEvent(s) == s = "VALIDATED"

\* Engine.AddTransaction, lines 87-96: GetEvent and the state check.
AddTransaction(c, e) ==
    /\ th[c].pc = "idle"
    /\ \E x \in TxIds : txs[x].state = "NONE"
    /\ IF events[e] = "NONE"
       THEN SetTh(c, Return("none"))
       ELSE IF ~CanAddTransaction(events[e])
       THEN SetTh(c, Return("AddTransaction: ErrInvalidEventState"))
       ELSE SetTh(c, [IdleThread EXCEPT !.pc = "add_save",
                                        !.ev = e, !.seen = events[e]])
    /\ UNCHANGED <<events, txs, History, lienVars, ledgerVars, execVars, accountVars, batchVars>>

\* Engine.AddTransaction, lines 98-110: SaveTransaction of the caller's tx,
\* whose EventID is ev, Order ord, Dependencies d and Type ty; the engine
\* does not overwrite any of them.  cte_transactions.event_id references
\* cte_events(id): with an ev that is no event's id the insert fails and
\* AddTransaction returns the error.
AddTransactionSaveTx(c, ev, ord, d, ty) ==
    /\ th[c].pc = "add_save"
    /\ IF ev \notin DOMAIN events \/ events[ev] = "NONE"
       THEN /\ SetTh(c, Return("failed to save transaction"))
            /\ UNCHANGED txs
       ELSE /\ \A y \in TxIds : txs[y].state # "NONE" /\ txs[y].event = ev => txs[y].order # ord
            /\ txs' = [txs EXCEPT ![FreshTx] =
                          [event |-> ev, order |-> ord, deps |-> d, type |-> ty,
                           state |-> "PENDING"]]
            /\ IF th[c].seen = "CREATED"
               THEN SetTh(c, [th[c] EXCEPT !.pc = "add_update"])
               ELSE SetTh(c, Return("none"))
    /\ UNCHANGED <<events, History, lienVars, ledgerVars, execVars, accountVars, batchVars>>

\* The same for any transaction a caller of the one-event engine can pass.
AddTransactionSave(c) ==
    \E ev \in EventIds, ord \in 1..MaxTx, d \in DepLists, ty \in TxTypes :
        AddTransactionSaveTx(c, ev, ord, d, ty)

\* Engine.AddTransaction, lines 112-118: UpdateEvent to VALIDATING.
AddTransactionUpdate(c) ==
    /\ th[c].pc = "add_update"
    /\ events' = [events EXCEPT ![th[c].ev] = "VALIDATING"]
    /\ SetTh(c, Return("none"))
    /\ UNCHANGED <<txs, History, lienVars, ledgerVars, execVars, accountVars, batchVars>>

\* The validation step of section 4.5 (VALIDATING -> VALIDATED).  No code of
\* the repository performs it; it is the environment's write to cte_events.
Validate(e) ==
    /\ events[e] = "VALIDATING"
    /\ events' = [events EXCEPT ![e] = "VALIDATED"]
    /\ UNCHANGED <<txs, th, History, lienVars, ledgerVars, execVars, accountVars, batchVars>>

\* Engine.StartEvent, lines 125-134: GetEvent and the state check.
StartEvent(c, e) ==
    /\ th[c].pc = "idle"
    /\ IF events[e] = "NONE"
       THEN SetTh(c, Return("none"))
       ELSE IF ~CanStartEvent(events[e])
       THEN SetTh(c, Return("StartEvent: ErrInvalidEventState"))
       ELSE SetTh(c, [IdleThread EXCEPT !.pc = "start_update",
                                        !.ev = e, !.seen = events[e]])
    /\ UNCHANGED <<events, txs, History, lienVars, ledgerVars, execVars, accountVars, batchVars>>

\* Engine.StartEvent, lines 136-146: UpdateEvent to EXECUTING, then
\* go e.executeEvent(...).
StartEventUpdate(c) ==
    /\ th[c].pc = "start_update"
    /\ th[th[c].ev].pc = "idle"
    /\ events' = [events EXCEPT ![th[c].ev] = "EXECUTING"]
    /\ th' = [th EXCEPT ![c] = Return("none"),
                        ![th[c].ev] = [IdleThread EXCEPT !.pc = "exec_load",
                                                         !.ev = th[c].ev]]
    /\ UNCHANGED <<txs, History, lienVars, ledgerVars, execVars, accountVars, batchVars>>

\* Engine.CompensateEvent: compensateEvent with no check of the state.
CompensateEvent(c, e) ==
    /\ th[c].pc = "idle"
    /\ IF events[e] = "NONE"
       THEN /\ SetTh(c, Return("none"))
            /\ UNCHANGED <<events, completedAtRollback>>
       ELSE /\ events' = [events EXCEPT ![e] = "ROLLING_BACK"]
            /\ completedAtRollback' = completedAtRollback \cup
                   {x \in EventTxIds(e) : txs[x].state = "COMPLETED"}
            /\ SetTh(c, [IdleThread EXCEPT !.pc = "comp_load",
                                           !.ev = e, !.seen = events[e]])
    /\ UNCHANGED <<txs, compInvoked, compErr, lienVars, ledgerVars, execVars, accountVars, batchVars>>

\* ------------------------------------------------------------- executeEvent
\* executeEvent, line 152: GetEventTransactions.
executeEventLoad(t) ==
    /\ th[t].pc = "exec_load"
    /\ SetTh(t, [th[t] EXCEPT !.pc = "exec_loop", !.txl = GetEventTransactions(th[t].ev)])
    /\ UNCHANGED <<events, txs, History, lienVars, ledgerVars, execVars, accountVars, batchVars>>

\* executeEvent, lines 158-167: checkDependencies of the next transaction.
executeEventCheck(t) ==
    /\ th[t].pc = "exec_loop"
    /\ th[t].txl # <<>>
    /\ LET r == checkDependencies(Head(th[t].txl))
       IN  SetTh(t, CASE r = "notmet"  -> [th[t] EXCEPT !.txl = Tail(th[t].txl)]
                      [] r = "missing" -> [th[t] EXCEPT !.pc = "fail_event"]
                      [] OTHER         -> [th[t] EXCEPT !.pc = "tx_begin", !.attempt = 0])
    /\ UNCHANGED <<events, txs, History, lienVars, ledgerVars, execVars, accountVars, batchVars>>

\* failEvent: GetEvent, UpdateEvent to FAILED; executeEvent returns.
failEvent(t) ==
    /\ th[t].pc = "fail_event"
    /\ events' = [events EXCEPT ![th[t].ev] = "FAILED"]
    /\ SetTh(t, [IdleThread EXCEPT !.pc = "done", !.ev = th[t].ev, !.ret = "failEvent"])
    /\ UNCHANGED <<txs, History, lienVars, ledgerVars, execVars, accountVars, batchVars>>

\* What the thread does once executeTransactionWithRetry has used an attempt
\* without success: the next attempt, or "max retries exceeded".
AfterFailedAttempt(r) ==
    IF r.attempt + 1 < MaxRetries
    THEN [r EXCEPT !.pc = "tx_begin", !.attempt = r.attempt + 1]
    ELSE [r EXCEPT !.pc = "comp_start", !.attempt = 0]

\* executeTransactionWithRetry, lines 204-219: UpdateTransaction to
\* EXECUTING, then the lookup of the executor.
executeTransactionBegin(t) ==
    /\ th[t].pc = "tx_begin"
    /\ LET x == Head(th[t].txl)
       IN  /\ txs' = [txs EXCEPT ![x].state = "EXECUTING"]
           /\ IF txs[x].type \in RegisteredTypes
              THEN SetTh(t, [th[t] EXCEPT !.pc = "tx_call"])
              ELSE SetTh(t, [AfterFailedAttempt(th[t]) EXCEPT !.atFail =
                        IF th[t].attempt + 1 < MaxRetries THEN {}
                        ELSE {y \in EventTxIds(th[t].ev) : y # x /\ txs[y].state = "COMPLETED"}])
    /\ UNCHANGED <<events, History, lienVars, ledgerVars, execVars, accountVars, batchVars>>

\* executeTransactionWithRetry, line 222: executor.Execute returns nil or an
\* error.
executorExecute(t) ==
    /\ th[t].pc = "tx_call"
    /\ \E ok \in BOOLEAN :
          /\ SetTh(t, [th[t] EXCEPT !.pc = IF ok THEN "tx_ok" ELSE "tx_err"])
          /\ executed' = [executed EXCEPT ![Head(th[t].txl)] = IF ok THEN @ + 1 ELSE @]
    /\ UNCHANGED <<events, txs, History, lienVars, ledgerVars, payload, result, compensated,
                   accountVars, batchVars>>

\* executeTransactionWithRetry, lines 223-232: UpdateTransaction to FAILED.
executeTransactionFailed(t) ==
    /\ th[t].pc = "tx_err"
    /\ LET x == Head(th[t].txl)
       IN  /\ txs' = [txs EXCEPT ![x].state = "FAILED"]
           /\ SetTh(t, [AfterFailedAttempt(th[t]) EXCEPT !.atFail =
                        IF th[t].attempt + 1 < MaxRetries THEN {}
                        ELSE {y \in EventTxIds(th[t].ev) : y # x /\ txs[y].state = "COMPLETED"}])
    /\ UNCHANGED <<events, History, lienVars, ledgerVars, execVars, accountVars, batchVars>>

\* executeTransactionWithRetry, lines 235-242: UpdateTransaction to
\* COMPLETED; executeEvent goes on to the next transaction.
executeTransactionCompleted(t) ==
    /\ th[t].pc = "tx_ok"
    /\ txs' = [txs EXCEPT ![Head(th[t].txl)].state = "COMPLETED"]
    /\ SetTh(t, [th[t] EXCEPT !.pc = "exec_loop", !.txl = Tail(th[t].txl), !.attempt = 0])
    /\ UNCHANGED <<events, History, lienVars, ledgerVars, execVars, accountVars, batchVars>>

\* executeEvent, lines 180-192: GetEvent, UpdateEvent to COMPLETED.
executeEventComplete(t) ==
    /\ th[t].pc = "exec_loop"
    /\ th[t].txl = <<>>
    /\ events' = [events EXCEPT ![th[t].ev] = "COMPLETED"]
    /\ SetTh(t, [IdleThread EXCEPT !.pc = "done", !.ev = th[t].ev])
    /\ UNCHANGED <<txs, History, lienVars, ledgerVars, execVars, accountVars, batchVars>>

\* ------------------------------------------------------------- compensateEvent
\* compensateEvent, lines 292-301, called by executeEvent after a failed
\* transaction: GetEvent, UpdateEvent to ROLLING_BACK.
compensateEventBegin(t) ==
    /\ th[t].pc = "comp_start"
    /\ events' = [events EXCEPT ![th[t].ev] = "ROLLING_BACK"]
    /\ completedAtRollback' = completedAtRollback \cup
           {x \in EventTxIds(th[t].ev) : txs[x].state = "COMPLETED"}
    /\ SetTh(t, [th[t] EXCEPT !.pc = "comp_load"])
    /\ UNCHANGED <<txs, compInvoked, compErr, lienVars, ledgerVars, execVars, accountVars, batchVars>>

\* compensateEvent, line 304: GetEventTransactions.
compensateEventLoad(t) ==
    /\ th[t].pc = "comp_load"
    /\ SetTh(t, [th[t] EXCEPT !.pc = "comp_loop", !.txl = CompensationList(th[t].ev),
                              !.comps = <<>>])
    /\ UNCHANGED <<events, txs, History, lienVars, ledgerVars, execVars, accountVars, batchVars>>

\* A slip in that branch: the error ends the loop.
AfterCompensateErrorMutant(r) ==
    [r EXCEPT !.txl = <<>>, !.comps = Append(r.comps, Head(r.txl))]

\* compensateEvent, lines 329-332: an error of executor.Compensate is
\* dropped and the loop continues with the next transaction.
AfterCompensateError(r) ==
    [r EXCEPT !.txl = Tail(r.txl), !.comps = Append(r.comps, Head(r.txl))]

\* compensateEvent, lines 318-332: the executor's lookup and
\* executor.Compensate, which returns nil or an error.
executorCompensate(t) ==
    /\ th[t].pc = "comp_loop"
    /\ th[t].txl # <<>>
    /\ LET x == Head(th[t].txl)
       IN  IF txs[x].type \notin RegisteredTypes
           THEN /\ SetTh(t, [th[t] EXCEPT !.txl = Tail(th[t].txl)])
                /\ UNCHANGED <<compInvoked, compErr, compensated>>
           ELSE \E ok \in BOOLEAN :
                /\ compInvoked' = compInvoked \cup {x}
                /\ compensated' = [compensated EXCEPT ![x] = IF ok THEN @ + 1 ELSE @]
                /\ compErr' = IF ok THEN compErr ELSE compErr \cup {x}
                /\ SetTh(t, IF ok
                            THEN [th[t] EXCEPT !.pc = "comp_mark",
                                               !.comps = Append(th[t].comps, x)]
                            ELSE AfterCompensateError(th[t]))
    /\ UNCHANGED <<events, txs, completedAtRollback, lienVars, ledgerVars,
                   payload, result, executed, accountVars, batchVars>>

\* compensateEvent, lines 334-340: UpdateTransaction to COMPENSATED.
compensateEventMark(t) ==
    /\ th[t].pc = "comp_mark"
    /\ txs' = [txs EXCEPT ![Head(th[t].txl)].state = "COMPENSATED"]
    /\ SetTh(t, [th[t] EXCEPT !.pc = "comp_loop", !.txl = Tail(th[t].txl)])
    /\ UNCHANGED <<events, History, lienVars, ledgerVars, execVars, accountVars, batchVars>>

\* compensateEvent, lines 343-350: UpdateEvent to ROLLED_BACK; the call (or
\* the goroutine) returns.
compensateEventFinish(t) ==
    /\ th[t].pc = "comp_loop"
    /\ th[t].txl = <<>>
    /\ events' = [events EXCEPT ![th[t].ev] = "ROLLED_BACK"]
    /\ IF t = Client
       THEN SetTh(t, Return("none"))
       ELSE SetTh(t, [IdleThread EXCEPT !.pc = "done", !.ev = th[t].ev,
                                        !.ret = "max retries exceeded"])
    /\ UNCHANGED <<txs, History, lienVars, ledgerVars, execVars, accountVars, batchVars>>

\* ------------------------------------------------------------- Next
Next ==
    \/ CreateEvent(Client)
    \/ \E e \in EventIds : AddTransaction(Client, e)
    \/ AddTransactionSave(Client)
    \/ AddTransactionUpdate(Client)
    \/ \E e \in EventIds : Validate(e)
    \/ \E e \in EventIds : StartEvent(Client, e)
    \/ StartEventUpdate(Client)
    \/ \E e \in EventIds : CompensateEvent(Client, e)
    \/ \E t \in Tasks : executeEventLoad(t)
    \/ \E t \in Tasks : executeEventCheck(t)
    \/ \E t \in Tasks : failEvent(t)
    \/ \E t \in Tasks : executeTransactionBegin(t)
    \/ \E t \in Tasks : executorExecute(t)
    \/ \E t \in Tasks : executeTransactionFailed(t)
    \/ \E t \in Tasks : executeTransactionCompleted(t)
    \/ \E t \in Tasks : executeEventComplete(t)
    \/ \E t \in Tasks : compensateEventBegin(t)
    \/ \E t \in Threads : compensateEventLoad(t)
    \/ \E t \in Threads : executorCompensate(t)
    \/ \E t \in Threads : compensateEventMark(t)
    \/ \E t \in Threads : compensateEventFinish(t)

Spec == Init /\ [][Next]_vars

\* ------------------------------------------------------------- dependencies
\* The execution of one validated event whose two transactions were added
\* with dependency lists of up to MaxDepsWide identifiers, among them the
\* identifier of a transaction that was never saved.
MaxDepsWide == 2
StoredTxIds == {1, 2}
WideDepLists ==
    {s \in UNION {[1..n -> TxIds] : n \in 0..MaxDepsWide} :
        \A i, j \in DOMAIN s : i # j => s[i] # s[j]}

DepInit ==
    /\ events = [e \in EventIds |-> "VALIDATED"]
    /\ \E d \in [StoredTxIds -> WideDepLists], first \in StoredTxIds :
          txs = [x \in TxIds |->
                    IF x \in StoredTxIds
                    THEN [event |-> 1, order |-> IF x = first THEN 1 ELSE 2,
                          deps |-> d[x], type |-> "wallet.transfer", state |-> "PENDING"]
                    ELSE NoTx]
    /\ th = [t \in Threads |-> IdleThread]
    /\ compInvoked = {}
    /\ compErr = {}
    /\ completedAtRollback = {}
    /\ liens = [l \in LienIds |-> NoLien]
    /\ lw = [w \in LienWorkers |-> IdleWorker]
    /\ balance = InitialBalance
    /\ now = 0
    /\ availAtLastLien = InitialBalance
    /\ ledger = {}
    /\ entryResult = "none"
    /\ payload = [x \in TxIds |-> NoPayload]
    /\ result = [x \in TxIds |-> "none"]
    /\ executed = [x \in TxIds |-> 0]
    /\ compensated = [x \in TxIds |-> 0]
    /\ accounts = [i \in AccountIds |-> NoAccount]
    /\ accountResult = NoResult
    /\ batch = IdleBatch

DepNext ==
    \/ \E e \in EventIds : StartEvent(Client, e)
    \/ StartEventUpdate(Client)
    \/ \E t \in Tasks : executeEventLoad(t)
    \/ \E t \in Tasks : executeEventCheck(t)
    \/ \E t \in Tasks : failEvent(t)
    \/ \E t \in Tasks : executeTransactionBegin(t)
    \/ \E t \in Tasks : executorExecute(t)
    \/ \E t \in Tasks : executeTransactionFailed(t)
    \/ \E t \in Tasks : executeTransactionCompleted(t)
    \/ \E t \in Tasks : executeEventComplete(t)
    \/ \E t \in Tasks : compensateEventBegin(t)
    \/ \E t \in Tasks : compensateEventLoad(t)
    \/ \E t \in Tasks : executorCompensate(t)
    \/ \E t \in Tasks : compensateEventMark(t)
    \/ \E t \in Tasks : compensateEventFinish(t)

DepSpec == DepInit /\ [][DepNext]_vars

\* ------------------------------------------------------------- concurrent starts
\* Two API callers call StartEvent on the same VALIDATED event.  Each
\* successful call starts its own goroutine with go e.executeEvent(...).
SecondClient == 4
StartCallers == {Client, SecondClient}
GoroutineOf(c) == c + 1
StartGoroutines == {GoroutineOf(c) : c \in StartCallers}

\* Event 1 has been created, given two wallet.transfer transactions without
\* dependencies, and validated.
StartInit ==
    /\ events = [e \in EventIds |-> "VALIDATED"]
    /\ txs = [x \in TxIds |->
                IF x \in StoredTxIds
                THEN [event |-> 1, order |-> x, deps |-> <<>>,
                      type |-> "wallet.transfer", state |-> "PENDING"]
                ELSE NoTx]
    /\ th = [t \in StartCallers \cup StartGoroutines |-> IdleThread]
    /\ compInvoked = {}
    /\ compErr = {}
    /\ completedAtRollback = {}
    /\ liens = [l \in LienIds |-> NoLien]
    /\ lw = [w \in LienWorkers |-> IdleWorker]
    /\ balance = InitialBalance
    /\ now = 0
    /\ availAtLastLien = InitialBalance
    /\ ledger = {}
    /\ entryResult = "none"
    /\ payload = [x \in TxIds |-> NoPayload]
    /\ result = [x \in TxIds |-> "none"]
    /\ executed = [x \in TxIds |-> 0]
    /\ compensated = [x \in TxIds |-> 0]
    /\ accounts = [i \in AccountIds |-> NoAccount]
    /\ accountResult = NoResult
    /\ batch = IdleBatch

\* Engine.StartEvent, lines 136-146, for caller c: UpdateEvent to EXECUTING
\* (EventStore.UpdateEvent saves the row whatever its stored state), then
\* go e.executeEvent(...) starts the goroutine of this call.
StartEventUpdateGo(c) ==
    /\ th[c].pc = "start_update"
    /\ th[GoroutineOf(c)].pc = "idle"
    /\ events' = [events EXCEPT ![th[c].ev] = "EXECUTING"]
    /\ th' = [th EXCEPT ![c] = Return("none"),
                        ![GoroutineOf(c)] = [IdleThread EXCEPT !.pc = "exec_load",
                                                               !.ev = th[c].ev]]
    /\ UNCHANGED <<txs, History, lienVars, ledgerVars, execVars, accountVars, batchVars>>

StartNext ==
    \/ \E c \in StartCallers, e \in EventIds : StartEvent(c, e)
    \/ \E c \in StartCallers : StartEventUpdateGo(c)
    \/ \E t \in StartGoroutines : executeEventLoad(t)
    \/ \E t \in StartGoroutines : executeEventCheck(t)
    \/ \E t \in StartGoroutines : executeTransactionBegin(t)
    \/ \E t \in StartGoroutines : executorExecute(t)
    \/ \E t \in StartGoroutines : executeTransactionFailed(t)
    \/ \E t \in StartGoroutines : executeTransactionCompleted(t)
    \/ \E t \in StartGoroutines : executeEventComplete(t)
    \/ \E t \in StartGoroutines : compensateEventBegin(t)
    \/ \E t \in StartGoroutines : compensateEventLoad(t)
    \/ \E t \in StartGoroutines : executorCompensate(t)
    \/ \E t \in StartGoroutines : compensateEventMark(t)
    \/ \E t \in StartGoroutines : compensateEventFinish(t)

\* The engine under two concurrent callers of StartEvent.
StartSpec == StartInit /\ [][StartNext]_vars

\* ------------------------------------------------------------- store errors
\* The same execution when EventStore.UpdateTransaction may return an error
\* (the row is then left as it was).

\* executeTransactionWithRetry, lines 206-209: UpdateTransaction to EXECUTING
\* fails; the attempt is used up without a call of the executor.
executeTransactionBeginStoreError(t) ==
    /\ th[t].pc = "tx_begin"
    /\ LET x == Head(th[t].txl)
       IN  SetTh(t, [AfterFailedAttempt(th[t]) EXCEPT !.atFail =
                        IF th[t].attempt + 1 < MaxRetries THEN {}
                        ELSE {y \in EventTxIds(th[t].ev) : y # x /\ txs[y].state = "COMPLETED"}])
    /\ UNCHANGED <<events, txs, History, lienVars, ledgerVars, execVars, accountVars, batchVars>>

\* executeTransactionWithRetry, lines 227-232: UpdateTransaction to FAILED
\* fails; the loop continues with the next attempt.
executeTransactionFailedStoreError(t) ==
    /\ th[t].pc = "tx_err"
    /\ LET x == Head(th[t].txl)
       IN  SetTh(t, [AfterFailedAttempt(th[t]) EXCEPT !.atFail =
                        IF th[t].attempt + 1 < MaxRetries THEN {}
                        ELSE {y \in EventTxIds(th[t].ev) : y # x /\ txs[y].state = "COMPLETED"}])
    /\ UNCHANGED <<events, txs, History, lienVars, ledgerVars, execVars, accountVars, batchVars>>

\* executeTransactionWithRetry, lines 238-240: UpdateTransaction to COMPLETED
\* fails; the function returns the error at once and executeEvent (lines
\* 170-172) calls compensateEvent.
executeTransactionCompletedStoreError(t) ==
    /\ th[t].pc = "tx_ok"
    /\ SetTh(t, [th[t] EXCEPT !.pc = "comp_start", !.attempt = 0,
                              !.atFail = {y \in EventTxIds(th[t].ev) :
                                             txs[y].state = "COMPLETED"}])
    /\ UNCHANGED <<events, txs, History, lienVars, ledgerVars, execVars, accountVars, batchVars>>

\* compensateEvent, lines 337-340: UpdateTransaction to COMPENSATED fails;
\* the loop continues with the next transaction.
compensateEventMarkStoreError(t) ==
    /\ th[t].pc = "comp_mark"
    /\ SetTh(t, [th[t] EXCEPT !.pc = "comp_loop", !.txl = Tail(th[t].txl)])
    /\ UNCHANGED <<events, txs, History, lienVars, ledgerVars, execVars, accountVars, batchVars>>

StoreErrorNext ==
    \/ DepNext
    \/ \E t \in Tasks : executeTransactionBeginStoreError(t)
    \/ \E t \in Tasks : executeTransactionFailedStoreError(t)
    \/ \E t \in Tasks : executeTransactionCompletedStoreError(t)
    \/ \E t \in Tasks : compensateEventMarkStoreError(t)

StoreErrorSpec == DepInit /\ [][StoreErrorNext]_vars

\* The same, followed by calls of CompensateEvent made once the event's
\* goroutine has returned.  A caller stops calling when a compensator has
\* returned success MaxCompensations times.
MaxCompensations == 2

CompensateEventAgain(c, e) ==
    /\ th[e].pc = "done"
    /\ \A x \in TxIds : compensated[x] < MaxCompensations
    /\ CompensateEvent(c, e)

ResweepNext ==
    \/ StoreErrorNext
    \/ \E e \in EventIds : CompensateEventAgain(Client, e)
    \/ compensateEventLoad(Client)
    \/ executorCompensate(Client)
    \/ compensateEventMark(Client)
    \/ compensateEventMarkStoreError(Client)
    \/ compensateEventFinish(Client)

ResweepSpec == DepInit /\ [][ResweepNext]_vars

\* ------------------------------------------------------------- lien manager
RECURSIVE SumAmounts(_)
SumAmounts(S) ==
    IF S = {} THEN 0
    ELSE LET l == CHOOSE l \in S : TRUE IN liens[l].amount + SumAmounts(S \ {l})

\* LienStore.GetLiensByAccount: WHERE account_id = ?
GetLiensByAccount(a) == {l \in LienIds : liens[l].state # "NONE" /\ liens[l].account = a}

\* CreateLien, lines 80-86: the sum over the PENDING and ACTIVE liens read.
ReservedAmount(a) ==
    SumAmounts({l \in GetLiensByAccount(a) : liens[l].state \in {"ACTIVE", "PENDING"}})

\* A slip in that loop: the liens of the calling event are not skipped.
EventAvailableBalanceMutant(e, a) ==
    balance[a] - SumAmounts({l \in GetLiensByAccount(a) :
                                liens[l].state \in {"ACTIVE", "PENDING"}})

\* LienManager.GetAvailableBalance, lines 253-267: the liens of other events.
EventAvailableBalance(e, a) ==
    balance[a] - SumAmounts({l \in GetLiensByAccount(a) :
                                /\ liens[l].event # e
                                /\ liens[l].state \in {"ACTIVE", "PENDING"}})

FreshLien == CHOOSE l \in LienIds : liens[l].state = "NONE" /\ \A m \in LienIds : m < l => liens[m].state # "NONE"

SetLw(w, r) == lw' = [lw EXCEPT ![w] = r]
LienReturn(ret) == [IdleWorker EXCEPT !.ret = ret]

\* CreateLien, lines 51-72: the input validation, then
\* accountService.GetAvailableBalance.
CreateLienCall(e, a, amt, exp) ==
    IF amt <= 0 \/ exp < now
    THEN LienReturn("invalid input")
    ELSE [IdleWorker EXCEPT !.pc = "create_read", !.event = e, !.account = a,
                            !.amount = amt, !.expires = exp,
                            !.available = balance[a]]

CreateLien(w, e, a, amt, exp) ==
    /\ lw[w].pc = "idle"
    /\ \E l \in LienIds : liens[l].state = "NONE"
    /\ SetLw(w, CreateLienCall(e, a, amt, exp))
    /\ UNCHANGED <<liens, balance, now, availAtLastLien, engineVars, ledgerVars, execVars, accountVars, batchVars>>

\* A slip in that check: the reserved amount is left out.
InsufficientFundsMutant(available, reserved, amount) == available < amount

\* CreateLien, line 89: available-reservedAmount < amount.
InsufficientFunds(available, reserved, amount) == available - reserved < amount

\* CreateLien, lines 74-92: GetLiensByAccount, the reserved sum and the
\* sufficient-funds check.
CreateLienCheck(w) ==
    /\ lw[w].pc = "create_read"
    /\ IF InsufficientFunds(lw[w].available, ReservedAmount(lw[w].account), lw[w].amount)
       THEN SetLw(w, LienReturn("ErrInsufficientFunds"))
       ELSE SetLw(w, [lw[w] EXCEPT !.pc = "create_save"])
    /\ UNCHANGED <<liens, balance, now, availAtLastLien, engineVars, ledgerVars, execVars, accountVars, batchVars>>

\* CreateLien, lines 94-113: SaveLien of the new PENDING lien.
CreateLienSave(w) ==
    /\ lw[w].pc = "create_save"
    /\ \E l \in LienIds : liens[l].state = "NONE"
    /\ liens' = [liens EXCEPT ![FreshLien] =
                    [event |-> lw[w].event, account |-> lw[w].account,
                     amount |-> lw[w].amount, expires |-> lw[w].expires,
                     state |-> "PENDING"]]
    /\ availAtLastLien' = [availAtLastLien EXCEPT ![lw[w].account] = balance[lw[w].account]]
    /\ SetLw(w, [LienReturn("none") EXCEPT !.lien = FreshLien])
    /\ UNCHANGED <<balance, now, engineVars, ledgerVars, execVars, accountVars, batchVars>>

\* ActivateLien, lines 152-161: GetLien and the state check.
ActivateLien(w, l) ==
    /\ lw[w].pc = "idle"
    /\ liens[l].state # "NONE"
    /\ IF liens[l].state # "PENDING"
       THEN SetLw(w, LienReturn("ErrInvalidLienState"))
       ELSE SetLw(w, [IdleWorker EXCEPT !.pc = "activate_update", !.lien = l,
                                        !.state = liens[l].state])
    /\ UNCHANGED <<liens, balance, now, availAtLastLien, engineVars, ledgerVars, execVars, accountVars, batchVars>>

\* ActivateLien, lines 163-183: time.Now().After(lien.ExpiresAt) decides
\* between UpdateLien to EXPIRED (and an error) and UpdateLien to ACTIVE.
ActivateLienUpdate(w) ==
    /\ lw[w].pc = "activate_update"
    /\ IF now > liens[lw[w].lien].expires
       THEN /\ liens' = [liens EXCEPT ![lw[w].lien].state = "EXPIRED"]
            /\ SetLw(w, LienReturn("lien has expired"))
       ELSE /\ liens' = [liens EXCEPT ![lw[w].lien].state = "ACTIVE"]
            /\ SetLw(w, LienReturn("none"))
    /\ UNCHANGED <<balance, now, availAtLastLien, engineVars, ledgerVars, execVars, accountVars, batchVars>>

\* ReleaseLien, lines 188-197: GetLien and the state check.
ReleaseLienCall(l) ==
    IF liens[l].state # "ACTIVE"
    THEN LienReturn("ErrInvalidLienState")
    ELSE [IdleWorker EXCEPT !.pc = "release_update", !.lien = l, !.state = liens[l].state]

ReleaseLien(w, l) ==
    /\ lw[w].pc = "idle"
    /\ liens[l].state # "NONE"
    /\ SetLw(w, ReleaseLienCall(l))
    /\ UNCHANGED <<liens, balance, now, availAtLastLien, engineVars, ledgerVars, execVars, accountVars, batchVars>>

\* ReleaseLien, lines 199-207: UpdateLien to RELEASED.
ReleaseLienUpdate(w) ==
    /\ lw[w].pc = "release_update"
    /\ liens' = [liens EXCEPT ![lw[w].lien].state = "RELEASED"]
    /\ SetLw(w, LienReturn("none"))
    /\ UNCHANGED <<balance, now, availAtLastLien, engineVars, ledgerVars, execVars, accountVars, batchVars>>

\* ExpireLien, lines 212-221: GetLien and the state check.
ExpireLien(w, l) ==
    /\ lw[w].pc = "idle"
    /\ liens[l].state # "NONE"
    /\ IF liens[l].state # "PENDING" /\ liens[l].state # "ACTIVE"
       THEN SetLw(w, LienReturn("ErrInvalidLienState"))
       ELSE SetLw(w, [IdleWorker EXCEPT !.pc = "expire_update", !.lien = l,
                                        !.state = liens[l].state])
    /\ UNCHANGED <<liens, balance, now, availAtLastLien, engineVars, ledgerVars, execVars, accountVars, batchVars>>

\* ExpireLien, lines 223-231: UpdateLien to EXPIRED.
ExpireLienUpdate(w) ==
    /\ lw[w].pc = "expire_update"
    /\ liens' = [liens EXCEPT ![lw[w].lien].state = "EXPIRED"]
    /\ SetLw(w, LienReturn("none"))
    /\ UNCHANGED <<balance, now, availAtLastLien, engineVars, ledgerVars, execVars, accountVars, batchVars>>

\* The passing of time.
Tick ==
    /\ now < MaxTime
    /\ now' = now + 1
    /\ UNCHANGED <<liens, lw, balance, availAtLastLien, engineVars, ledgerVars, execVars, accountVars, batchVars>>

LienNext ==
    \/ \E w \in LienWorkers, e \in LienEvents, a \in Accounts, amt \in Amounts,
          exp \in 0..MaxTime : CreateLien(w, e, a, amt, exp)
    \/ \E w \in LienWorkers : CreateLienCheck(w)
    \/ \E w \in LienWorkers : CreateLienSave(w)
    \/ \E w \in LienWorkers, l \in LienIds : ActivateLien(w, l)
    \/ \E w \in LienWorkers : ActivateLienUpdate(w)
    \/ \E w \in LienWorkers, l \in LienIds : ReleaseLien(w, l)
    \/ \E w \in LienWorkers : ReleaseLienUpdate(w)
    \/ \E w \in LienWorkers, l \in LienIds : ExpireLien(w, l)
    \/ \E w \in LienWorkers : ExpireLienUpdate(w)
    \/ Tick

\* The lien manager under concurrent callers.
LienSpec == Init /\ [][LienNext]_vars

\* LienManager.GetAvailableBalance called by w for event e and account a;
\* the worker keeps the arguments and the value returned.
GetAvailableBalance(w, e, a) ==
    /\ lw[w].pc = "idle"
    /\ SetLw(w, [IdleWorker EXCEPT !.ret = "available", !.event = e, !.account = a,
                                   !.available = EventAvailableBalance(e, a)])
    /\ UNCHANGED <<liens, balance, now, availAtLastLien, engineVars, ledgerVars, execVars, accountVars, batchVars>>

\* One caller of the lien operations and one reader of the balance.
LienCaller == 1
BalanceReader == 2

BalanceNext ==
    \/ \E e \in LienEvents, a \in Accounts, amt \in Amounts, exp \in 0..MaxTime :
          CreateLien(LienCaller, e, a, amt, exp)
    \/ CreateLienCheck(LienCaller)
    \/ CreateLienSave(LienCaller)
    \/ \E l \in LienIds : ActivateLien(LienCaller, l)
    \/ ActivateLienUpdate(LienCaller)
    \/ \E l \in LienIds : ReleaseLien(LienCaller, l)
    \/ ReleaseLienUpdate(LienCaller)
    \/ \E l \in LienIds : ExpireLien(LienCaller, l)
    \/ ExpireLienUpdate(LienCaller)
    \/ Tick
    \/ \E e \in LienEvents, a \in Accounts : GetAvailableBalance(BalanceReader, e, a)

\* The lien manager with a reader of event_available_balance.
BalanceSpec == Init /\ [][BalanceNext]_vars

\* ------------------------------------------------------------- executors
\* Two started events, each with one transaction, run by the engine with the
\* executors of the factory.
ExecEvents == {1, 2}
ExecThreads == {Client} \cup ExecEvents
ExecTypes == {"wallet.withdrawal", "wallet.transfer", "batch.operation"}
MaxExecutions == 2
\* WalletWithdrawalExecutor.Execute: time.Now().Add(30*time.Minute)
LienLifetime == 1

\* The payloads a caller can give with a transaction of each type.
Payloads(ty) ==
    CASE ty = "wallet.withdrawal" ->
             {[NoPayload EXCEPT !.account = "X", !.amount = m] : m \in {40, 80, 120}}
      [] ty = "wallet.transfer" ->
             {[NoPayload EXCEPT !.account = "A", !.dest = "B", !.amount = m] : m \in {0, 40}}
      [] OTHER ->
             {[NoPayload EXCEPT !.children = c] :
                 c \in [1..2 -> {"wallet.transfer", "unknown.type"}]}

\* Event e has been created, given its transaction e, and validated.
ExecInit ==
    /\ events = [e \in ExecEvents |-> "VALIDATED"]
    /\ \E ty \in [ExecEvents -> ExecTypes] :
          /\ txs = [x \in TxIds |->
                      IF x \in ExecEvents
                      THEN [event |-> x, order |-> 1, deps |-> <<>>, type |-> ty[x],
                            state |-> "PENDING"]
                      ELSE NoTx]
          /\ \E p \in [ExecEvents -> UNION {Payloads(u) : u \in ExecTypes}] :
                /\ \A e \in ExecEvents : p[e] \in Payloads(ty[e])
                /\ payload = [x \in TxIds |-> IF x \in ExecEvents THEN p[x] ELSE NoPayload]
    /\ th = [t \in ExecThreads |-> IdleThread]
    /\ compInvoked = {}
    /\ compErr = {}
    /\ completedAtRollback = {}
    /\ liens = [l \in LienIds |-> NoLien]
    /\ lw = [w \in LienWorkers |-> IdleWorker]
    /\ balance = InitialBalance
    /\ now = 0
    /\ availAtLastLien = InitialBalance
    /\ ledger = {}
    /\ entryResult = "none"
    /\ result = [x \in TxIds |-> "none"]
    /\ executed = [x \in TxIds |-> 0]
    /\ compensated = [x \in TxIds |-> 0]
    /\ accounts = [i \in AccountIds |-> NoAccount]
    /\ accountResult = NoResult
    /\ batch = IdleBatch

\* validateWalletTransferPayload.
ValidTransferPayload(p) == p.account # "none" /\ p.dest # "none" /\ p.account # p.dest /\ p.amount > 0

\* A slip in ProcessTransfer: every call posts a new entry (debit the
\* source, credit the destination) under a new identifier.
TransferPostingMutant(l, x) ==
    l \cup {[id |-> Cardinality(l) + 1, ref |-> x,
             lines |-> <<[account |-> payload[x].account, debit |-> payload[x].amount, credit |-> 0],
                         [account |-> payload[x].dest, debit |-> 0, credit |-> payload[x].amount]>>]}

\* transactionServiceImpl.ProcessTransfer: the ledger after the call made
\* for transaction x.  The function builds a Transaction value and returns
\* it; it writes nothing.
TransferPosting(l, x) == l

\* WalletTransferExecutor.Execute, run by the engine for the head of the
\* goroutine's list.
walletTransferExecute(t) ==
    /\ th[t].pc = "tx_call"
    /\ LET x == Head(th[t].txl)
       IN  /\ txs[x].type = "wallet.transfer"
           /\ IF ValidTransferPayload(payload[x])
              THEN /\ ledger' = TransferPosting(ledger, x)
                   /\ executed' = [executed EXCEPT ![x] = @ + 1]
                   /\ SetTh(t, [th[t] EXCEPT !.pc = "tx_ok"])
              ELSE /\ SetTh(t, [th[t] EXCEPT !.pc = "tx_err"])
                   /\ UNCHANGED <<ledger, executed>>
    /\ UNCHANGED <<events, txs, History, lienVars, entryResult, payload, result, compensated, accountVars, batchVars>>

\* ExecutorFactory.ExecuteTransaction called on a stored wallet.transfer
\* transaction: the executor's lookup and executor.Execute.
ExecuteTransaction(x) ==
    /\ txs[x].type = "wallet.transfer"
    /\ executed[x] < MaxExecutions
    /\ ValidTransferPayload(payload[x])
    /\ ledger' = TransferPosting(ledger, x)
    /\ executed' = [executed EXCEPT ![x] = @ + 1]
    /\ UNCHANGED <<engineVars, lienVars, entryResult, payload, result, compensated, accountVars, batchVars>>

\* BatchOperationExecutor.Execute, lines 187-197: the status from the
\* children's results.  A child is COMPLETED when its type has an executor
\* and that executor returned nil.
BatchStatus(c) ==
    LET ok == {i \in DOMAIN c : c[i] \in RegisteredTypes}
    IN  IF ok = DOMAIN c THEN "COMPLETED"
        ELSE IF ok # {} THEN "PARTIALLY_COMPLETED"
        ELSE "FAILED"

\* BatchOperationExecutor.Execute: every child is executed, the status is
\* put in tx.Result, and nil is returned whatever the status.
batchOperationExecute(t) ==
    /\ th[t].pc = "tx_call"
    /\ LET x == Head(th[t].txl)
       IN  /\ txs[x].type = "batch.operation"
           /\ result' = [result EXCEPT ![x] = BatchStatus(payload[x].children)]
           /\ executed' = [executed EXCEPT ![x] = @ + 1]
           /\ SetTh(t, [th[t] EXCEPT !.pc = "tx_ok"])
    /\ UNCHANGED <<events, txs, History, lienVars, ledgerVars, payload, compensated, accountVars, batchVars>>

\* WalletWithdrawalExecutor.Execute up to its call of
\* lienManager.CreateLien: the payload's validation, then the call.
walletWithdrawalExecute(t) ==
    /\ th[t].pc = "tx_call"
    /\ lw[t].pc = "idle"
    /\ LET x == Head(th[t].txl)
       IN  /\ txs[x].type = "wallet.withdrawal"
           /\ IF payload[x].account = "none" \/ payload[x].amount <= 0
              THEN /\ SetTh(t, [th[t] EXCEPT !.pc = "tx_err"])
                   /\ UNCHANGED lw
              ELSE /\ SetTh(t, [th[t] EXCEPT !.pc = "wd_lien"])
                   /\ SetLw(t, CreateLienCall(txs[x].event, payload[x].account,
                                              payload[x].amount, now + LienLifetime))
    /\ UNCHANGED <<events, txs, History, liens, balance, now, availAtLastLien,
                   ledgerVars, execVars, accountVars, batchVars>>

\* WalletWithdrawalExecutor.Execute once CreateLien has returned: on an
\* error the executor returns it; otherwise ProcessWithdrawal (which writes
\* nothing) and the call of lienManager.ReleaseLien on the new lien.
walletWithdrawalAfterCreateLien(t) ==
    /\ th[t].pc = "wd_lien"
    /\ lw[t].pc = "idle"
    /\ IF lw[t].ret # "none"
       THEN /\ SetTh(t, [th[t] EXCEPT !.pc = "tx_err"])
            /\ SetLw(t, IdleWorker)
       ELSE /\ SetTh(t, [th[t] EXCEPT !.pc = "wd_release"])
            /\ SetLw(t, ReleaseLienCall(lw[t].lien))
    /\ UNCHANGED <<events, txs, History, liens, balance, now, availAtLastLien,
                   ledgerVars, execVars, accountVars, batchVars>>

\* WalletWithdrawalExecutor.Execute once ReleaseLien has returned: its
\* error is the executor's error; otherwise the executor returns nil.
walletWithdrawalAfterReleaseLien(t) ==
    /\ th[t].pc = "wd_release"
    /\ lw[t].pc = "idle"
    /\ IF lw[t].ret # "none"
       THEN /\ SetTh(t, [th[t] EXCEPT !.pc = "tx_err"])
            /\ UNCHANGED executed
       ELSE /\ SetTh(t, [th[t] EXCEPT !.pc = "tx_ok"])
            /\ executed' = [executed EXCEPT ![Head(th[t].txl)] = @ + 1]
    /\ SetLw(t, IdleWorker)
    /\ UNCHANGED <<events, txs, History, liens, balance, now, availAtLastLien,
                   ledgerVars, payload, result, compensated, accountVars, batchVars>>

ExecNext ==
    \/ \E e \in ExecEvents : StartEvent(Client, e)
    \/ StartEventUpdate(Client)
    \/ \E t \in ExecEvents : executeEventLoad(t)
    \/ \E t \in ExecEvents : executeEventCheck(t)
    \/ \E t \in ExecEvents : executeTransactionBegin(t)
    \/ \E t \in ExecEvents : walletTransferExecute(t)
    \/ \E t \in ExecEvents : batchOperationExecute(t)
    \/ \E t \in ExecEvents : walletWithdrawalExecute(t)
    \/ \E t \in ExecEvents : CreateLienCheck(t)
    \/ \E t \in ExecEvents : CreateLienSave(t)
    \/ \E t \in ExecEvents : walletWithdrawalAfterCreateLien(t)
    \/ \E t \in ExecEvents : walletWithdrawalAfterReleaseLien(t)
    \/ \E t \in ExecEvents : executeTransactionFailed(t)
    \/ \E t \in ExecEvents : executeTransactionCompleted(t)
    \/ \E t \in ExecEvents : executeEventComplete(t)
    \/ \E t \in ExecEvents : compensateEventBegin(t)
    \/ \E t \in ExecEvents : compensateEventLoad(t)
    \/ \E t \in ExecEvents : compensateEventFinish(t)
    \/ \E x \in ExecEvents : ExecuteTransaction(x)

\* The engine with the factory's executors.
ExecutorSpec == ExecInit /\ [][ExecNext]_vars

\* ------------------------------------------------------------- two events
\* Two created events and one caller of AddTransaction and StartEvent.  The
\* EventID that the caller left in its tx is one of the two events' ids or
\* NoEventId (the field was left empty).
NoEventId == 0
MaxAdded == 2

AddInit ==
    /\ events = [e \in ExecEvents |-> "CREATED"]
    /\ txs = [x \in TxIds |-> NoTx]
    /\ th = [t \in ExecThreads |-> IdleThread]
    /\ compInvoked = {}
    /\ compErr = {}
    /\ completedAtRollback = {}
    /\ liens = [l \in LienIds |-> NoLien]
    /\ lw = [w \in LienWorkers |-> IdleWorker]
    /\ balance = InitialBalance
    /\ now = 0
    /\ availAtLastLien = InitialBalance
    /\ ledger = {}
    /\ entryResult = "none"
    /\ payload = [x \in TxIds |-> NoPayload]
    /\ result = [x \in TxIds |-> "none"]
    /\ executed = [x \in TxIds |-> 0]
    /\ compensated = [x \in TxIds |-> 0]
    /\ accounts = [i \in AccountIds |-> NoAccount]
    /\ accountResult = NoResult
    /\ batch = IdleBatch

\* AddTransaction called while fewer than MaxAdded transactions are stored.
AddTransactionBounded(c, e) ==
    /\ Cardinality({x \in TxIds : txs[x].state # "NONE"}) < MaxAdded
    /\ AddTransaction(c, e)

AddNext ==
    \/ \E e \in ExecEvents : AddTransactionBounded(Client, e)
    \/ \E ev \in ExecEvents \cup {NoEventId}, ord \in 1..MaxAdded :
          AddTransactionSaveTx(Client, ev, ord, <<>>, "wallet.transfer")
    \/ AddTransactionUpdate(Client)
    \/ \E e \in ExecEvents : Validate(e)
    \/ \E e \in ExecEvents : StartEvent(Client, e)
    \/ StartEventUpdate(Client)
    \/ \E t \in ExecEvents : executeEventLoad(t)
    \/ \E t \in ExecEvents : executeEventCheck(t)
    \/ \E t \in ExecEvents : executeTransactionBegin(t)
    \/ \E t \in ExecEvents : executorExecute(t)
    \/ \E t \in ExecEvents : executeTransactionFailed(t)
    \/ \E t \in ExecEvents : executeTransactionCompleted(t)
    \/ \E t \in ExecEvents : executeEventComplete(t)
    \/ \E t \in ExecEvents : compensateEventBegin(t)
    \/ \E t \in ExecEvents : compensateEventLoad(t)
    \/ \E t \in ExecEvents : executorCompensate(t)
    \/ \E t \in ExecEvents : compensateEventMark(t)
    \/ \E t \in ExecEvents : compensateEventFinish(t)

\* The engine with two events.
AddSpec == AddInit /\ [][AddNext]_vars

\* ------------------------------------------------------------- batch executor
\* BatchOperationExecutor.Execute and Compensate: the loop over the children,
\* the goroutines it starts, the semaphore channel sem, the sync.WaitGroup,
\* the buffered channel of results (errCh in Compensate) and the goroutine
\* that closes it.  The goroutines are anonymous: running is the bag of the
\* children whose goroutine's executor call has not returned, holding counts
\* the goroutines that have sent their result and still hold a slot of sem,
\* and exiting those that have given the slot back and not yet called
\* wg.Done.
MaxChildren == 11
MaxCompensatedChildren == 6
MaxMixedChildren == 3
\* const maxConcurrent in Execute and in Compensate.
maxConcurrentExecute == 10
maxConcurrentCompensate == 5

ChildTypes == {"", "unknown.type", "wallet.transfer"}

\* payload.Transactions of an Execute: short lists of every mix of types
\* and amounts (a wallet.transfer child of amount 0 has an invalid payload),
\* and lists of valid wallet.transfer children up to MaxChildren.
ExecuteChildren ==
    {[status |-> "none", type |-> ty, amount |-> 40] : ty \in ChildTypes}
        \cup {[status |-> "none", type |-> "wallet.transfer", amount |-> 0]}

ExecuteInputs ==
    UNION {[1..n -> ExecuteChildren] : n \in 0..MaxMixedChildren}
      \cup {[i \in 1..n |-> [status |-> "none", type |-> "wallet.transfer", amount |-> 40]] :
              n \in 0..MaxChildren}

\* result.Results of a Compensate: each child's recorded status and the
\* "type" entry of its result ("" when there is none).
CompensateChildren ==
    {[status |-> "COMPLETED", type |-> ty, amount |-> 0] : ty \in ChildTypes}
        \cup {[status |-> "FAILED", type |-> "wallet.transfer", amount |-> 0]}

CompensateInputs ==
    UNION {[1..n -> CompensateChildren] : n \in 0..MaxMixedChildren}
      \cup {[i \in 1..n |-> [status |-> "COMPLETED", type |-> "wallet.transfer", amount |-> 0]] :
              n \in 0..MaxCompensatedChildren}

SetBatch(r) == batch' = r
BatchFrame == UNCHANGED <<engineVars, lienVars, ledgerVars, execVars, accountVars>>

\* A slip in the semaphore: the send never blocks.
SemHasRoomMutant(held, cap) == TRUE

\* sem <- struct{}{} on a channel of capacity cap that holds held values:
\* the send goes through only when the channel is not full.
SemHasRoom(held, cap) == held < cap

\* A slip in the status: any failed child makes the batch FAILED.
AggregateStatusMutant(successful, failed) ==
    IF failed = 0 THEN "COMPLETED" ELSE "FAILED"

\* Execute, lines 199-205: the status from the two counts.
AggregateStatus(successful, failed) ==
    IF failed = 0 THEN "COMPLETED"
    ELSE IF successful > 0 THEN "PARTIALLY_COMPLETED"
    ELSE "FAILED"

\* Execute, lines 70-102: the payload is parsed and the channels are made.
batchExecuteCall(c) ==
    /\ batch.pc = "idle"
    /\ SetBatch([IdleBatch EXCEPT !.op = "execute", !.pc = "loop", !.children = c,
                                  !.total = Len(c), !.status = "PROCESSING"])
    /\ BatchFrame

\* Execute, lines 104-126: a child without a type, or whose type has no
\* executor, gets a FAILED result sent by the loop itself.
batchExecuteSkip ==
    /\ batch.op = "execute" /\ batch.pc = "loop"
    /\ batch.i < Len(batch.children)
    /\ batch.children[batch.i + 1].type \notin RegisteredTypes
    /\ SetBatch([batch EXCEPT !.i = @ + 1, !.results = Append(@, "FAILED")])
    /\ BatchFrame

\* Execute, line 129: wg.Add(1) for a child that has an executor.
batchExecuteAdd ==
    /\ batch.op = "execute" /\ batch.pc = "loop"
    /\ batch.i < Len(batch.children)
    /\ batch.children[batch.i + 1].type \in RegisteredTypes
    /\ SetBatch([batch EXCEPT !.wg = @ + 1, !.pc = "acquire"])
    /\ BatchFrame

\* Execute, lines 130-132 (Compensate, lines 273-275): the send on sem, which
\* blocks while the channel is full, then the start of the goroutine.
batchAcquire ==
    /\ batch.pc = "acquire"
    /\ SemHasRoom(batch.sem, IF batch.op = "execute" THEN maxConcurrentExecute
                             ELSE maxConcurrentCompensate)
    /\ SetBatch([batch EXCEPT !.sem = @ + 1,
                              !.running = @ (+) SetToBag({batch.children[batch.i + 1]}),
                              !.i = @ + 1, !.pc = "loop"])
    /\ BatchFrame

\* WalletTransferExecutor.Execute on a child: an error for an invalid
\* payload, nil otherwise.
ChildExecuteOk(ch) ==
    ValidTransferPayload([NoPayload EXCEPT !.account = "A", !.dest = "B",
                                           !.amount = ch.amount])

\* Execute, lines 132-178: a goroutine's executor.Execute returns, and the
\* goroutine sends the child's result.
batchChildExecute ==
    /\ batch.op = "execute"
    /\ \E ch \in BagToSet(batch.running) :
          LET ok == ChildExecuteOk(ch)
          IN
          SetBatch([batch EXCEPT !.running = @ (-) SetToBag({ch}), !.holding = @ + 1,
                                 !.results = Append(@, IF ok THEN "COMPLETED" ELSE "FAILED"),
                                 !.returnedNil = IF ok THEN @ + 1 ELSE @,
                                 !.returnedErr = IF ok THEN @ ELSE @ + 1])
    /\ BatchFrame

\* The goroutine's second deferred call, run first: <-sem.
batchRelease ==
    /\ batch.holding > 0
    /\ SetBatch([batch EXCEPT !.holding = @ - 1, !.sem = @ - 1, !.exiting = @ + 1])
    /\ BatchFrame

\* The goroutine's first deferred call, run last: wg.Done().
batchDone ==
    /\ batch.exiting > 0
    /\ SetBatch([batch EXCEPT !.exiting = @ - 1, !.wg = @ - 1])
    /\ BatchFrame

\* Execute, lines 181-185 (Compensate, lines 285-289): after the loop, the
\* goroutine that waits for the group and closes the channel is started.
batchLoopEnd ==
    /\ batch.pc = "loop"
    /\ batch.i = Len(batch.children)
    /\ SetBatch([batch EXCEPT !.pc = "collect", !.closer = "waiting"])
    /\ BatchFrame

\* wg.Wait() returns when the counter is zero; then close(results).
batchClose ==
    /\ batch.closer = "waiting"
    /\ batch.wg = 0
    /\ SetBatch([batch EXCEPT !.closer = "closed"])
    /\ BatchFrame

\* Execute, lines 188-195: one result is received and counted.
batchExecuteCollect ==
    /\ batch.op = "execute" /\ batch.pc = "collect"
    /\ batch.results # <<>>
    /\ SetBatch([batch EXCEPT !.results = Tail(@),
                              !.successful = IF Head(batch.results) = "COMPLETED"
                                             THEN @ + 1 ELSE @,
                              !.failed = IF Head(batch.results) = "COMPLETED"
                                         THEN @ ELSE @ + 1])
    /\ BatchFrame

\* Execute, lines 188-215: the range over the closed and drained channel
\* ends; the status is computed and nil is returned.
batchExecuteReturn ==
    /\ batch.op = "execute" /\ batch.pc = "collect"
    /\ batch.results = <<>>
    /\ batch.closer = "closed"
    /\ SetBatch([batch EXCEPT !.pc = "returned",
                              !.status = AggregateStatus(batch.successful, batch.failed)])
    /\ BatchFrame

\* Compensate, lines 219-241: the stored result is parsed; with no child
\* results the call returns nil at once.
batchCompensateCall(c) ==
    /\ batch.pc = "idle"
    /\ SetBatch([IdleBatch EXCEPT !.op = "compensate",
                                  !.pc = IF Len(c) = 0 THEN "returned" ELSE "loop",
                                  !.children = c, !.total = Len(c)])
    /\ BatchFrame

\* Compensate, lines 243-261: a child that did not complete is passed over;
\* one without a type in its result, or whose type has no executor, puts an
\* error on errCh.
batchCompensateSkip ==
    /\ batch.op = "compensate" /\ batch.pc = "loop"
    /\ batch.i < Len(batch.children)
    /\ LET ch == batch.children[batch.i + 1]
       IN  /\ ch.status # "COMPLETED" \/ ch.type \notin RegisteredTypes
           /\ SetBatch([batch EXCEPT !.i = @ + 1,
                                     !.results = IF ch.status # "COMPLETED" THEN @
                                                 ELSE Append(@, "error")])
    /\ BatchFrame

\* Compensate, line 272: wg.Add(1) for a completed child that has an
\* executor.
batchCompensateAdd ==
    /\ batch.op = "compensate" /\ batch.pc = "loop"
    /\ batch.i < Len(batch.children)
    /\ LET ch == batch.children[batch.i + 1]
       IN  ch.status = "COMPLETED" /\ ch.type \in RegisteredTypes
    /\ SetBatch([batch EXCEPT !.wg = @ + 1, !.pc = "acquire"])
    /\ BatchFrame

\* Compensate, lines 275-282: a goroutine's executor.Compensate returns nil
\* or an error; an error is sent on errCh.
batchChildCompensate ==
    /\ batch.op = "compensate"
    /\ \E ch \in BagToSet(batch.running), ok \in BOOLEAN :
          SetBatch([batch EXCEPT !.running = @ (-) SetToBag({ch}), !.holding = @ + 1,
                                 !.results = IF ok THEN @ ELSE Append(@, "error"),
                                 !.returnedNil = IF ok THEN @ + 1 ELSE @,
                                 !.returnedErr = IF ok THEN @ ELSE @ + 1])
    /\ BatchFrame

\* Compensate, lines 292-297: one error is received and kept.
batchCompensateCollect ==
    /\ batch.op = "compensate" /\ batch.pc = "collect"
    /\ batch.results # <<>>
    /\ SetBatch([batch EXCEPT !.results = Tail(@), !.failed = @ + 1])
    /\ BatchFrame

\* Compensate, lines 299-324: the status, and an error when any was kept.
batchCompensateReturn ==
    /\ batch.op = "compensate" /\ batch.pc = "collect"
    /\ batch.results = <<>>
    /\ batch.closer = "closed"
    /\ SetBatch([batch EXCEPT !.pc = "returned",
                              !.status = IF batch.failed > 0 THEN "PARTIALLY_COMPENSATED"
                                         ELSE "COMPENSATED",
                              !.ret = IF batch.failed > 0 THEN "compensation errors"
                                      ELSE "none"])
    /\ BatchFrame

BatchNext ==
    \/ \E c \in ExecuteInputs : batchExecuteCall(c)
    \/ batchExecuteSkip
    \/ batchExecuteAdd
    \/ batchAcquire
    \/ batchChildExecute
    \/ batchRelease
    \/ batchDone
    \/ batchLoopEnd
    \/ batchClose
    \/ batchExecuteCollect
    \/ batchExecuteReturn
    \/ \E c \in CompensateInputs : batchCompensateCall(c)
    \/ batchCompensateSkip
    \/ batchCompensateAdd
    \/ batchChildCompensate
    \/ batchCompensateCollect
    \/ batchCompensateReturn

\* One call of the batch executor.
BatchSpec == Init /\ [][BatchNext]_vars

\* The same call when the Go scheduler keeps running some goroutine that can
\* take a step.
BatchFairSpec == BatchSpec /\ WF_vars(BatchNext)

\* ------------------------------------------------------------- ledger
\* transactionServiceImpl.CreateEntry and the entries / entry_lines tables.
\* A line's Debit and Credit are float64 values; the inputs here are whole
\* multiples of 2^-15, on which float64 addition and comparison are exact,
\* and an amount is written as its number of such units.  The columns
\* entry_lines.debit and entry_lines.credit are DECIMAL(19,4); a persisted
\* amount is written as its number of units of 10^-4.
MaxEntries == 1
MaxLines == 3
LedgerAccounts == {"A", "B"}
EntryAccounts == LedgerAccounts \cup {"Z"}
LineAmounts == {-1, 0, 1, 2}
AmountUnit == 2^15
\* DECIMAL(19,4)
DecimalScale == 10^4

EntryLines == [account : EntryAccounts, debit : LineAmounts, credit : LineAmounts]
EntryInputs == UNION {[1..n -> EntryLines] : n \in 1..MaxLines}

RECURSIVE TotalDebit(_)
TotalDebit(lines) ==
    IF lines = <<>> THEN 0 ELSE Head(lines).debit + TotalDebit(Tail(lines))

RECURSIVE TotalCredit(_)
TotalCredit(lines) ==
    IF lines = <<>> THEN 0 ELSE Head(lines).credit + TotalCredit(Tail(lines))

\* ValidateEntry, lines 58-80: the loop over the lines, which returns at the
\* first line whose account is unknown or whose amounts are refused.
RECURSIVE ValidateLines(_)
ValidateLines(lines) ==
    IF lines = <<>> THEN "ok"
    ELSE LET line == Head(lines)
         IN  IF line.account \notin LedgerAccounts THEN "account not found"
             ELSE IF line.debit < 0 \/ line.credit < 0
                  THEN "debit and credit amounts must be non-negative"
             ELSE IF line.debit > 0 /\ line.credit > 0
                  THEN "a line cannot have both debit and credit amounts"
             ELSE ValidateLines(Tail(lines))

\* ValidateEntry, lines 50-88.
ValidateEntry(lines) ==
    IF Len(lines) < 2 THEN "entry must have at least two lines"
    ELSE IF ValidateLines(lines) # "ok" THEN ValidateLines(lines)
    ELSE IF TotalDebit(lines) # TotalCredit(lines)
         THEN "total debits do not equal total credits"
    ELSE "ok"

\* The value a DECIMAL(19,4) column keeps of a non-negative amount: the
\* nearest multiple of 10^-4, a half rounded up.
Round4(v) == (2 * v * DecimalScale + AmountUnit) \div (2 * AmountUnit)

\* entryRepository.CreateEntry: the entry's row and one row per line, in
\* one database transaction.
PersistedEntry(lines) ==
    [id |-> Cardinality(ledger) + 1, ref |-> 0,
     lines |-> [i \in DOMAIN lines |->
                  [account |-> lines[i].account,
                   debit |-> Round4(lines[i].debit),
                   credit |-> Round4(lines[i].credit)]]]

\* transactionServiceImpl.CreateEntry.
CreateEntry(lines) ==
    /\ Cardinality(ledger) < MaxEntries
    /\ IF ValidateEntry(lines) # "ok"
       THEN /\ entryResult' = ValidateEntry(lines)
            /\ ledger' = ledger
       ELSE /\ entryResult' = "ok"
            /\ ledger' = ledger \cup {PersistedEntry(lines)}
    /\ UNCHANGED <<engineVars, lienVars, execVars, accountVars, batchVars>>

LedgerNext == \E lines \in EntryInputs : CreateEntry(lines)

LedgerSpec == Init /\ [][LedgerNext]_vars

\* ------------------------------------------------------------- accounts
\* accountRepository (internal/repository/account_repository.go) on the
\* accounts table.  The *Account a caller passes: any identifier (0 is the
\* empty string) and any values of the other fields.
AccountStructs ==
    [id : AccountIds \cup {0}, name : AccountNames, type : AccountTypes,
     owner : Owners, currency : Currencies, updated : {0}]

\* uuid.New(): an identifier no row has
FreshAccount ==
    CHOOSE i \in AccountIds :
        accounts[i] = NoAccount /\ \A j \in AccountIds : j < i => accounts[j] # NoAccount

\* CreateAccount: INSERT INTO accounts; an identifier that already has a row
\* violates the primary key.
CreateAccount(a) ==
    /\ a.id = 0 => \E i \in AccountIds : accounts[i] = NoAccount
    /\ LET id == IF a.id = 0 THEN FreshAccount ELSE a.id
       IN  IF accounts[id] # NoAccount
           THEN /\ accountResult' = [NoResult EXCEPT !.op = "create",
                                                     !.err = "failed to create account"]
                /\ accounts' = accounts
           ELSE /\ accountResult' = [NoResult EXCEPT !.op = "create"]
                /\ accounts' = [accounts EXCEPT ![id] = [a EXCEPT !.id = id, !.updated = now]]
    /\ UNCHANGED <<engineVars, lienVars, ledgerVars, execVars, batchVars>>

\* GetAccountByID: sql.ErrNoRows gives (nil, nil).
GetAccountByID(id) ==
    /\ accountResult' = [NoResult EXCEPT !.op = "get", !.account = accounts[id]]
    /\ UNCHANGED <<accounts, engineVars, lienVars, ledgerVars, execVars, batchVars>>

\* A slip in that statement: every column is set from the struct.
UpdatedRowMutant(row, a) == [a EXCEPT !.updated = now]

\* UpdateAccount, line 94: UPDATE accounts SET name = $1, updated_at = $2.
UpdatedRow(row, a) == [row EXCEPT !.name = a.name, !.updated = now]

\* UpdateAccount: the UPDATE ... WHERE id = $3 and the RowsAffected test.
UpdateAccount(a) ==
    /\ IF a.id \in AccountIds /\ accounts[a.id] # NoAccount
       THEN /\ accounts' = [accounts EXCEPT ![a.id] = UpdatedRow(accounts[a.id], a)]
            /\ accountResult' = [NoResult EXCEPT !.op = "update"]
       ELSE /\ accounts' = accounts
            /\ accountResult' = [NoResult EXCEPT !.op = "update",
                                                 !.err = "not found for update"]
    /\ UNCHANGED <<engineVars, lienVars, ledgerVars, execVars, batchVars>>

\* DeleteAccount: DELETE FROM accounts WHERE id = $1 and the RowsAffected
\* test.
DeleteAccount(id) ==
    /\ IF accounts[id] # NoAccount
       THEN /\ accounts' = [accounts EXCEPT ![id] = NoAccount]
            /\ accountResult' = [NoResult EXCEPT !.op = "delete"]
       ELSE /\ accounts' = accounts
            /\ accountResult' = [NoResult EXCEPT !.op = "delete",
                                                 !.err = "not found for deletion"]
    /\ UNCHANGED <<engineVars, lienVars, ledgerVars, execVars, batchVars>>

AccountNext ==
    \/ \E a \in AccountStructs : CreateAccount(a)
    \/ \E id \in AccountIds : GetAccountByID(id)
    \/ \E a \in AccountStructs : UpdateAccount(a)
    \/ \E id \in AccountIds : DeleteAccount(id)
    \/ Tick

AccountSpec == Init /\ [][AccountNext]_vars

\* ------------------------------------------------------------- properties
\* The event state machine of section 4.5, with the creation of the row.
EventEdges ==
    {<<"NONE", "CREATED">>, <<"CREATED", "VALIDATING">>, <<"VALIDATING", "VALIDATED">>,
     <<"VALIDATED", "EXECUTING">>, <<"EXECUTING", "COMPLETED">>, <<"EXECUTING", "FAILED">>,
     <<"FAILED", "ROLLING_BACK">>, <<"ROLLING_BACK", "ROLLED_BACK">>}

\* Every dependency of x has a row whose state is COMPLETED.
DependenciesCompleted(x) ==
    \A i \in DOMAIN txs[x].deps :
        /\ txs[x].deps[i] \in TxIds
        /\ txs[txs[x].deps[i]].state = "COMPLETED"

\* s lists transactions in strictly descending execution order.
Descending(s) ==
    \A i, j \in DOMAIN s : i < j => txs[s[i]].order > txs[s[j]].order

\* No thread is at work on event e: its goroutine has returned and the
\* client is not inside a call on it.
Quiescent(e) == th[e].pc = "done" /\ th[Client].pc = "idle"

\* C1: for every event whose persisted state is COMPLETED, every transaction
\* of that event is in state COMPLETED.
C1_CompletedEventHasAllCompleted ==
    \A e \in EventIds :
        events[e] = "COMPLETED" => \A x \in EventTxIds(e) : txs[x].state = "COMPLETED"

\* C2: a transaction is persisted as EXECUTING, and its executor is invoked,
\* only when every transaction listed in its dependencies is persisted as
\* COMPLETED at that moment.
C2_ExecutesOnlyAfterDependencies ==
    [][\A t \in Tasks :
          (executeTransactionBegin(t) \/ executorExecute(t))
              => DependenciesCompleted(Head(th[t].txl))]_vars

\* C3: for every account, the PENDING and ACTIVE liens on it never add up to
\* more than its raw available balance as of the creation of its last lien.
C3_LiensWithinAvailableBalance ==
    \A a \in Accounts : ReservedAmount(a) <= availAtLastLien[a]

\* C4: every change of an event's persisted state is an edge of the event
\* state machine.
C4_EventTransitionsFollowMachine ==
    [][\A e \in EventIds :
          events'[e] # events[e] => <<events[e], events'[e]>> \in EventEdges]_vars

C6_RolledBackEventIsCompensated ==
    \A e \in EventIds :
        events[e] = "ROLLED_BACK" =>
            \A x \in EventTxIds(e) :
                (x \in completedAtRollback /\ x \notin compErr)
                    => txs[x].state = "COMPENSATED"

\* C7 (as a final result): once the goroutine of a started event has returned
\* and no call is in progress, the event is COMPLETED or ROLLED_BACK.
C7_StartedEventEndsTerminal ==
    \A e \in EventIds :
        Quiescent(e) => events[e] \in {"COMPLETED", "ROLLED_BACK"}

\* C8: after create_event and at least one successful add_transaction (the
\* event is then VALIDATING and has a transaction), start_event succeeds.
C8_StartAfterAddSucceeds ==
    [][\A e \in EventIds :
          (StartEvent(Client, e) /\ events[e] = "VALIDATING" /\ EventTxIds(e) # {})
              => th'[Client].pc = "start_update"]_vars

\* C9: add_transaction goes on to save only when it read CREATED or
\* VALIDATING; otherwise it returns ErrInvalidEventState, saves nothing and
\* leaves the event alone.  A transaction row appears only in a call that read
\* CREATED or VALIDATING.  The add that read CREATED moves the event from
\* CREATED to VALIDATING; an add that read VALIDATING leaves the event's state
\* as it is.
C9_AddTransactionGuard ==
    [][/\ \A e \in EventIds :
             (AddTransaction(Client, e) /\ events[e] # "NONE") =>
                 IF events[e] \in {"CREATED", "VALIDATING"}
                 THEN th'[Client].pc = "add_save"
                 ELSE /\ th'[Client].pc = "idle"
                      /\ th'[Client].ret = "AddTransaction: ErrInvalidEventState"
                      /\ txs' = txs
                      /\ events' = events
       /\ txs' # txs /\ (\E x \in TxIds : txs[x].state = "NONE" /\ txs'[x].state # "NONE")
             => /\ th[Client].pc = "add_save"
                /\ th[Client].seen \in {"CREATED", "VALIDATING"}
                /\ events' = events
                /\ th[Client].seen = "VALIDATING" => th'[Client].pc = "idle"
       /\ AddTransactionUpdate(Client)
             => /\ th[Client].seen = "CREATED"
                /\ events[th[Client].ev] = "CREATED"
                /\ events'[th[Client].ev] = "VALIDATING"]_vars

\* C9 witness: add_transaction was refused on a started event.
C9_Witness ==
    /\ th[Client].ret = "AddTransaction: ErrInvalidEventState"
    /\ \E e \in EventIds : events[e] = "EXECUTING" /\ EventTxIds(e) # {}

\* C10: start_event goes on only when it read VALIDATED, and then the event is
\* persisted EXECUTING and the execution is scheduled when it returns; in
\* every other state it returns ErrInvalidEventState, leaves the event's state
\* unchanged and schedules nothing.  An execution is scheduled only by a
\* start_event that read VALIDATED.
C10_StartEventGuard ==
    [][/\ \A e \in EventIds :
             (StartEvent(Client, e) /\ events[e] # "NONE") =>
                 IF events[e] = "VALIDATED"
                 THEN th'[Client].pc = "start_update"
                 ELSE /\ th'[Client].pc = "idle"
                      /\ th'[Client].ret = "StartEvent: ErrInvalidEventState"
                      /\ events' = events
                      /\ \A t \in Tasks : th'[t] = th[t]
       /\ StartEventUpdate(Client)
             => /\ events'[th[Client].ev] = "EXECUTING"
                /\ th'[Client].pc = "idle"
                /\ th'[th[Client].ev].pc = "exec_load"
       /\ \A t \in Tasks :
             (th[t].pc = "idle" /\ th'[t].pc # "idle")
                 => /\ th[Client].pc = "start_update"
                    /\ th[Client].seen = "VALIDATED"
                    /\ th[Client].ev = t]_vars

\* C10 witness: a start_event that succeeded: the event is EXECUTING and its
\* goroutine has been launched.
C10_Witness ==
    \E e \in EventIds : events[e] = "EXECUTING" /\ th[e].pc = "exec_load"

\* C11: COMPLETED and ROLLED_BACK are terminal: once an event's persisted
\* state is one of them, no step changes it.
C11_TerminalEventStatesStay ==
    [][\A e \in EventIds :
          events[e] \in {"COMPLETED", "ROLLED_BACK"} => events'[e] = events[e]]_vars

\* The transactions x names in its Dependencies.
DepSet(x) == {txs[x].deps[i] : i \in DOMAIN txs[x].deps}

RECURSIVE DepClosure(_, _)
DepClosure(S, n) ==
    IF n = 0 THEN S
    ELSE DepClosure(S \cup UNION {DepSet(y) : y \in S \cap TxIds}, n - 1)

\* x depends on itself through a chain of dependencies.
InCycle(x) == x \in DepClosure(DepSet(x), MaxTx)

HasCyclicDependencies(e) == \E x \in EventTxIds(e) : InCycle(x)

\* C12: an event whose transactions have cyclic dependencies is never
\* COMPLETED, and once its execution has returned (and nobody rolled it back)
\* its state is FAILED.
C12_CyclicDependenciesFailEvent ==
    \A e \in EventIds :
        HasCyclicDependencies(e) =>
            /\ events[e] # "COMPLETED"
            /\ (Quiescent(e) /\ events[e] \notin {"ROLLING_BACK", "ROLLED_BACK"})
                   => events[e] = "FAILED"

\* Both events hold a wallet.withdrawal of 80 on account X (balance 100).
TwoWithdrawalsOf80 ==
    \A e \in ExecEvents :
        /\ txs[e].type = "wallet.withdrawal"
        /\ payload[e].account = "X"
        /\ payload[e].amount = 80

\* C13: when two events each execute a wallet.withdrawal of 80 on an account
\* whose balance is 100, then once both executions have returned exactly one
\* event is COMPLETED, the other is not, and no PENDING or ACTIVE lien
\* remains on the account.
C13_OneOfTwoWithdrawalsCompletes ==
    (TwoWithdrawalsOf80 /\ \A e \in ExecEvents : th[e].pc = "done") =>
        /\ Cardinality({e \in ExecEvents : events[e] = "COMPLETED"}) = 1
        /\ Cardinality({e \in ExecEvents : events[e] \in {"FAILED", "ROLLED_BACK"}}) = 1
        /\ ReservedAmount("X") = 0

\* C14: a create_lien whose amount exceeds the account's available balance
\* minus the PENDING and ACTIVE liens on the account (those of other events
\* included) returns ErrInsufficientFunds and the stored liens are unchanged;
\* a lien is saved only by a call that passed this check.
C14_InsufficientFundsLeavesNoLien ==
    [][/\ \A w \in LienWorkers :
             (CreateLienCheck(w)
                 /\ lw[w].amount > balance[lw[w].account] - ReservedAmount(lw[w].account))
                 => /\ lw'[w].pc = "idle"
                    /\ lw'[w].ret = "ErrInsufficientFunds"
                    /\ liens' = liens
       /\ \A w \in LienWorkers :
             (lw[w].pc = "create_read" /\ lw'[w].ret = "ErrInsufficientFunds")
                 => liens' = liens
       /\ \A w \in LienWorkers :
             (lw[w].pc = "create_read" /\ lw'[w].pc = "create_save")
                 => lw[w].amount <= balance[lw[w].account] - ReservedAmount(lw[w].account)]_vars

\* C14 witness: a create_lien has been refused for insufficient funds while
\* the account carries a PENDING or ACTIVE lien and the amounts on offer do
\* not all exceed the raw balance.
C14_Witness ==
    \E w \in LienWorkers :
        /\ lw[w].ret = "ErrInsufficientFunds"
        /\ \E l \in LienIds : liens[l].state \in {"PENDING", "ACTIVE"}
        /\ ReservedAmount("X") = 80

\* The lien state machine, with the creation of the row.
LienEdges ==
    {<<"NONE", "PENDING">>, <<"PENDING", "ACTIVE">>, <<"ACTIVE", "RELEASED">>,
     <<"PENDING", "EXPIRED">>, <<"ACTIVE", "EXPIRED">>}

\* C15: every change of a lien's persisted state is an edge of the lien
\* state machine, and activate_lien, release_lien or expire_lien called on a
\* lien in any other source state returns ErrInvalidLienState and leaves the
\* lien unchanged.
C15_LienTransitionsFollowMachine ==
    [][/\ \A l \in LienIds :
             liens'[l].state # liens[l].state
                 => <<liens[l].state, liens'[l].state>> \in LienEdges
       /\ \A w \in LienWorkers, l \in LienIds :
             /\ (ActivateLien(w, l) /\ liens[l].state # "PENDING")
                    => lw'[w].ret = "ErrInvalidLienState" /\ liens' = liens
             /\ (ReleaseLien(w, l) /\ liens[l].state # "ACTIVE")
                    => lw'[w].ret = "ErrInvalidLienState" /\ liens' = liens
             /\ (ExpireLien(w, l) /\ liens[l].state \notin {"PENDING", "ACTIVE"})
                    => lw'[w].ret = "ErrInvalidLienState" /\ liens' = liens]_vars

\* C16: executing a transaction again after a successful execute leaves the
\* ledger unchanged, and the ledger never holds more than one posting for one
\* transaction identifier.
C16_ReexecutionLeavesLedgerUnchanged ==
    [][/\ \A x \in TxIds :
             (executed[x] >= 1 /\ executed'[x] > executed[x]) => ledger' = ledger
       /\ \A x \in TxIds : Cardinality({en \in ledger' : en.ref = x}) <= 1]_vars

\* C16 witness: a wallet.transfer that the engine has executed and persisted
\* COMPLETED has been executed a second time with the same payload.
C16_Witness ==
    \E x \in ExecEvents :
        /\ txs[x].type = "wallet.transfer"
        /\ txs[x].state = "COMPLETED"
        /\ ValidTransferPayload(payload[x])
        /\ executed[x] = 2

\* The persisted lines of entry en add up to the same debit and credit.
Balanced(en) == TotalDebit(en.lines) = TotalCredit(en.lines)

\* C17: every persisted entry is balanced, and the ledger changes only by a
\* create_entry that returned success: a refused entry persists nothing.
C17_PersistedEntriesBalanced ==
    [][/\ \A en \in ledger' : Balanced(en)
       /\ ledger' # ledger => entryResult' = "ok"
       /\ (entryResult' # entryResult /\ entryResult' # "ok") => ledger' = ledger]_vars

\* C18: every line of an accepted entry has exactly one of debit and credit
\* non-zero, and neither is negative.
C18_LinesHaveOneSide ==
    \A en \in ledger : \A i \in DOMAIN en.lines :
        /\ en.lines[i].debit >= 0
        /\ en.lines[i].credit >= 0
        /\ (en.lines[i].debit # 0) # (en.lines[i].credit # 0)

\* The children of batch transaction x of which at least one has failed
\* and at least one has succeeded.
MixedChildren(x) ==
    LET c == payload[x].children
    IN  /\ \E i \in DOMAIN c : c[i] \in RegisteredTypes
        /\ \E i \in DOMAIN c : c[i] \notin RegisteredTypes

\* C19: a batch.operation executed with at least one failed and at least
\* one succeeded child records the status PARTIALLY_COMPLETED, and its event
\* is not persisted COMPLETED: once the event's goroutine has returned the
\* event is FAILED or ROLLED_BACK.
C19_PartialBatchFailsEvent ==
    \A x \in ExecEvents :
        (txs[x].type = "batch.operation" /\ MixedChildren(x) /\ result[x] # "none") =>
            /\ result[x] = "PARTIALLY_COMPLETED"
            /\ txs[x].state # "COMPLETED"
            /\ events[txs[x].event] # "COMPLETED"
            /\ th[txs[x].event].pc = "done"
                   => events[txs[x].event] \in {"FAILED", "ROLLED_BACK"}

\* C20: a wallet.transfer of amount m from A to B whose transaction is
\* persisted COMPLETED has exactly one ledger entry, made of a debit of m on
\* A and a credit of m on B; an event whose only transaction is that
\* transfer and which is COMPLETED has it.
C20_CompletedTransferPostsOneEntry ==
    \A x \in ExecEvents :
        (txs[x].type = "wallet.transfer" /\ txs[x].state = "COMPLETED") =>
            /\ Cardinality({en \in ledger : en.ref = x}) = 1
            /\ \A en \in ledger : en.ref = x =>
                   en.lines = <<[account |-> payload[x].account,
                                 debit |-> payload[x].amount, credit |-> 0],
                                [account |-> payload[x].dest,
                                 debit |-> 0, credit |-> payload[x].amount]>>

\* The liens of event e that reserve funds.
OpenLiens(e) == {l \in LienIds : liens[l].event = e /\ liens[l].state \in {"PENDING", "ACTIVE"}}

\* C21: the effects of one execute are visible all together or not at all:
\* while a wallet.withdrawal's execute is between its steps, and once it has
\* returned an error, no lien that it created is stored for its event.
C21_ExecuteEffectsAtomic ==
    \A t \in ExecEvents :
        (txs[t].type = "wallet.withdrawal" /\ th[t].pc \in {"wd_lien", "wd_release", "tx_err"})
            => OpenLiens(txs[t].event) = {}

\* The amounts of the PENDING and ACTIVE liens on account a whose event is
\* not e, added lien by lien.
ReservedByOthers(e, a) ==
    LET f[n \in 0..MaxLiens] ==
            IF n = 0 THEN 0
            ELSE f[n - 1] + (IF /\ liens[n].account = a
                                /\ liens[n].event # e
                                /\ liens[n].state \in {"PENDING", "ACTIVE"}
                             THEN liens[n].amount ELSE 0)
    IN  f[MaxLiens]

\* C22: event_available_balance(e, a) returns the account's available balance
\* minus the amounts of the PENDING and ACTIVE liens on a whose event is not
\* e; the liens of e and the RELEASED and EXPIRED liens are not subtracted.
C22_EventAvailableBalanceValue ==
    [][\A e \in LienEvents, a \in Accounts :
          GetAvailableBalance(BalanceReader, e, a)
              => lw'[BalanceReader].available = balance[a] - ReservedByOthers(e, a)]_vars

\* C22 witness: the balance was read for an event that holds an open lien on
\* the account while another event holds an open lien of 40 on it, and the
\* value returned is 60.
C22_Witness ==
    /\ lw[BalanceReader].ret = "available"
    /\ lw[BalanceReader].available = 60
    /\ \E l \in LienIds : /\ liens[l].event = lw[BalanceReader].event
                          /\ liens[l].state \in {"PENDING", "ACTIVE"}
    /\ \E l \in LienIds : /\ liens[l].event # lw[BalanceReader].event
                          /\ liens[l].state \in {"PENDING", "ACTIVE"}
                          /\ liens[l].amount = 40

\* C23: an activate_lien that finds the lien PENDING at a time now with
\* now >= expires_at (now = expires_at included) stores it as EXPIRED and
\* returns the expiry error; with now < expires_at it stores it as ACTIVE.
C23_ActivateAtExpiryExpires ==
    [][\A w \in LienWorkers :
          (ActivateLienUpdate(w) /\ liens[lw[w].lien].state = "PENDING") =>
              IF now >= liens[lw[w].lien].expires
              THEN /\ liens'[lw[w].lien].state = "EXPIRED"
                   /\ lw'[w].ret = "lien has expired"
              ELSE /\ liens'[lw[w].lien].state = "ACTIVE"
                   /\ lw'[w].ret = "none"]_vars

\* The transaction state machine, with the creation of the row.
TxEdges ==
    {<<"NONE", "PENDING">>, <<"PENDING", "EXECUTING">>, <<"EXECUTING", "COMPLETED">>,
     <<"EXECUTING", "FAILED">>, <<"COMPLETED", "COMPENSATING">>,
     <<"COMPENSATING", "COMPENSATED">>}

\* C24: every change of a transaction's persisted state is an edge of the
\* transaction state machine.
C24_TxTransitionsFollowMachine ==
    [][\A x \in TxIds :
          txs'[x].state # txs[x].state => <<txs[x].state, txs'[x].state>> \in TxEdges]_vars

AcyclicDependencies(e) ==
    /\ ~HasCyclicDependencies(e)
    /\ \A x \in EventTxIds(e) : DepSet(x) \subseteq EventTxIds(e)

\* C26 (as a final result): for an event with an acyclic dependency graph in
\* which no execution failed, once the event's goroutine has returned and no
\* call is in progress every transaction of the event is COMPLETED, also
\* those skipped in a pass because a dependency was not yet COMPLETED.
C26_SkippedTransactionsComplete ==
    \A e \in EventIds :
        (/\ Quiescent(e)
         /\ AcyclicDependencies(e)
         /\ events[e] \notin {"FAILED", "ROLLING_BACK", "ROLLED_BACK"})
            => \A x \in EventTxIds(e) : txs[x].state = "COMPLETED"

\* Transaction x names a dependency that has no row in the store.
HasAbsentDependency(x) == \E d \in DepSet(x) : d \notin TxIds \/ txs[d].state = "NONE"

\* C27: in executeEvent's dependency check, a transaction one of whose
\* dependencies has no row makes the event fail (the event is persisted
\* FAILED and the executor is never invoked for that transaction), whereas a
\* transaction whose dependencies all have rows but are not all COMPLETED is
\* only skipped.
C27_AbsentDependencyFailsEvent ==
    [][\A t \in Tasks :
          /\ (executeEventCheck(t) /\ HasAbsentDependency(Head(th[t].txl)))
                 => th'[t].pc = "fail_event"
          /\ (executeEventCheck(t) /\ ~HasAbsentDependency(Head(th[t].txl))
                                   /\ ~DependenciesCompleted(Head(th[t].txl)))
                 => /\ th'[t].pc = "exec_loop"
                    /\ th'[t].txl = Tail(th[t].txl)
                    /\ events' = events
          /\ failEvent(t) => events'[th[t].ev] = "FAILED"
          /\ executorExecute(t) => ~HasAbsentDependency(Head(th[t].txl))]_vars

\* C28: in one run of an event the executor of a transaction is called only
\* in attempts 1 to max_retries, no further attempt follows a call that
\* succeeded, and executeEvent starts the compensation only when the last of
\* the max_retries attempts has failed.
C28_RetriesBoundedThenCompensation ==
    [][\A t \in Tasks :
          /\ executorExecute(t) => th[t].attempt < MaxRetries
          /\ (th[t].pc = "tx_ok" /\ th'[t].pc # "tx_ok")
                 => th'[t].pc \notin {"tx_begin", "tx_call"}
          /\ (th[t].pc # "comp_start" /\ th'[t].pc = "comp_start")
                 => /\ th[t].pc \in {"tx_begin", "tx_err"}
                    /\ th[t].attempt = MaxRetries - 1]_vars

\* C29: when executeTransactionWithRetry has given up on a transaction
\* (executeEvent is about to compensate), that transaction is persisted
\* FAILED, and once the event's goroutine has returned no transaction of the
\* event is left in EXECUTING.
C29_FinalFailurePersistsFailed ==
    \A t \in Tasks :
        /\ th[t].pc = "comp_start" => txs[Head(th[t].txl)].state = "FAILED"
        /\ th[t].pc = "done" =>
               \A x \in EventTxIds(th[t].ev) : txs[x].state # "EXECUTING"

\* C30: in a compensation sweep, a compensator that returns an error and a
\* transaction whose type has no executor only move the sweep on to the next
\* transaction of its list; the sweep leaves its loop only when the list is
\* used up, having called the compensator of every listed transaction whose
\* type has an executor, and then persists the event as ROLLED_BACK.
C30_CompensatorErrorKeepsSweeping ==
    [][\A t \in Threads :
          /\ (th[t].pc = "comp_loop" /\ th'[t] # th[t] /\ th[t].txl # <<>>)
                 => /\ th'[t].pc \in {"comp_loop", "comp_mark"}
                    /\ th'[t].txl \in {th[t].txl, Tail(th[t].txl)}
                    /\ txs[Head(th[t].txl)].type \in RegisteredTypes
                           => Head(th[t].txl) \in compInvoked'
          /\ (th[t].pc = "comp_mark" /\ th'[t] # th[t])
                 => th'[t].pc = "comp_loop" /\ th'[t].txl = Tail(th[t].txl)
          /\ (th[t].pc = "comp_loop" /\ th'[t].pc \notin {"comp_loop", "comp_mark"})
                 => th[t].txl = <<>> /\ events'[th[t].ev] = "ROLLED_BACK"]_vars

\* C30 witness: an event is ROLLED_BACK although the compensator of one of
\* its transactions returned an error, and a transaction that comes later in
\* the sweep (earlier in execution order) has been compensated.
C30_Witness ==
    \E e \in EventIds :
        /\ events[e] = "ROLLED_BACK"
        /\ \E x \in EventTxIds(e) \cap compErr :
              \E y \in EventTxIds(e) \ compErr :
                  /\ txs[y].order < txs[x].order
                  /\ txs[y].state = "COMPENSATED"
                  /\ txs[x].state = "COMPLETED"

\* C31: a wallet.withdrawal execute whose create_lien found sufficient funds
\* (the lien of its event has been saved) returns success, and when it
\* returns that lien is RELEASED.
C31_WithdrawalSucceedsAndReleasesLien ==
    \A t \in ExecEvents :
        LET mine == {l \in LienIds : liens[l].state # "NONE" /\ liens[l].event = txs[t].event}
        IN  (/\ txs[t].type = "wallet.withdrawal"
             /\ th[t].pc \in {"tx_ok", "tx_err"}
             /\ th[t].attempt = 0
             /\ mine # {})
                => /\ th[t].pc = "tx_ok"
                   /\ \A l \in mine : liens[l].state = "RELEASED"

\* The children of a batch whose execution fails: those without a type or
\* with a type that has no executor, and those whose executor returns an
\* error.
FailedChildren(c) ==
    {i \in DOMAIN c : c[i].type \notin RegisteredTypes \/ ~ChildExecuteOk(c[i])}

\* C32: when a batch.operation execute returns, successful_count is the
\* number of children that succeeded, failed_count the number that failed
\* (children with a missing or unregistered type included), the two add up
\* to the number of children, and the status is COMPLETED when no child
\* failed, FAILED when some failed and none succeeded, PARTIALLY_COMPLETED
\* when some succeeded and some failed.
C32_BatchAggregateStatus ==
    (batch.op = "execute" /\ batch.pc = "returned") =>
        LET bad == FailedChildren(batch.children)
            good == DOMAIN batch.children \ bad
        IN  /\ batch.successful = Cardinality(good)
            /\ batch.failed = Cardinality(bad)
            /\ batch.successful + batch.failed = Len(batch.children)
            /\ batch.successful = batch.returnedNil
            /\ batch.status = IF bad = {} THEN "COMPLETED"
                              ELSE IF good = {} THEN "FAILED"
                              ELSE "PARTIALLY_COMPLETED"

\* C32 witness: an execute has returned PARTIALLY_COMPLETED for a batch with
\* a child without a type, a child of an unregistered type and a child that
\* succeeded.
C32_Witness ==
    /\ batch.op = "execute" /\ batch.pc = "returned"
    /\ batch.status = "PARTIALLY_COMPLETED"
    /\ \E i, j \in DOMAIN batch.children :
          /\ batch.children[i].type = ""
          /\ batch.children[j].type = "unknown.type"
    /\ batch.returnedNil = 1

\* The child executions (or compensations) in progress.
ChildrenInProgress == BagCardinality(batch.running)

\* C33: during a batch.operation execute at most 10 child executions are in
\* progress, during its compensate at most 5 child compensations; every call
\* made returns, and when it returns every goroutine it started has
\* finished.
C33_BoundedPoolTerminates ==
    /\ [](/\ batch.op = "execute" => ChildrenInProgress <= 10
          /\ batch.op = "compensate" => ChildrenInProgress <= 5
          /\ batch.pc = "returned" =>
                 /\ batch.running = EmptyBag
                 /\ batch.holding = 0 /\ batch.exiting = 0 /\ batch.wg = 0
                 /\ batch.i = Len(batch.children) \/ Len(batch.children) = 0)
    /\ (batch.pc # "idle" ~> batch.pc = "returned")

\* C33 witness: an execute whose loop waits to send on the full semaphore
\* while 10 child executions are in progress.
C33_Witness ==
    /\ batch.op = "execute"
    /\ batch.pc = "acquire"
    /\ ChildrenInProgress = maxConcurrentExecute
    /\ batch.sem = maxConcurrentExecute

\* The goroutines that run (or have run) executeEvent for event e.
ExecutionTasks(e) ==
    {g \in DOMAIN th \ StartCallers : th[g].pc # "idle" /\ th[g].ev = e}

\* C34: whatever the interleaving of the start_event calls on an event, at
\* most one goroutine executes the event, and no transaction's executor is
\* run successfully more than once.
C34_StartedAtMostOnce ==
    /\ \A e \in EventIds : Cardinality(ExecutionTasks(e)) <= 1
    /\ \A x \in TxIds : executed[x] <= 1

\* C35: while an event's persisted state is ROLLING_BACK or ROLLED_BACK, no
\* executor's execute returns for a transaction of the event, and no
\* transaction of the event goes to COMPLETED.
C35_NoExecutionAfterRollbackStarts ==
    [][\A e \in EventIds :
          events[e] \in {"ROLLING_BACK", "ROLLED_BACK"} =>
              /\ \A x \in EventTxIds(e) :
                    txs'[x].state = "COMPLETED" => txs[x].state = "COMPLETED"
              /\ \A t \in Tasks :
                    th[t].ev = e =>
                        ~(th[t].pc = "tx_call" /\ th'[t].pc \in {"tx_ok", "tx_err"})]_vars

\* C36: in an event whose execution has ended ROLLED_BACK, every transaction
\* whose executor's execute returned success has had its compensator
\* invoked.
C36_ExecutedTransactionsAreCompensated ==
    \A e \in EventIds :
        (events[e] = "ROLLED_BACK" /\ Quiescent(e)) =>
            \A x \in EventTxIds(e) : executed[x] > 0 => x \in compInvoked

\* C37: a sweep calls the compensator of a transaction only when no earlier
\* call of that transaction's compensator has returned success.
C37_CompensatorNotRepeatedAfterSuccess ==
    [][\A t \in DOMAIN th :
          (/\ th[t].pc = "comp_loop"
           /\ th[t].txl # <<>>
           /\ th'[t] # th[t]
           /\ txs[Head(th[t].txl)].type \in RegisteredTypes)
              => compensated[Head(th[t].txl)] = 0]_vars

\* C38: the transaction that a successful add_transaction(event_id, tx)
\* stores belongs to event event_id, whatever EventID the caller left in tx:
\* it is among the transactions listed for event_id.
C38_AddedTransactionBelongsToEvent ==
    [][\A c \in DOMAIN th :
          (th[c].pc = "add_save" /\ txs' # txs)
              => \E x \in TxIds :
                    /\ txs[x].state = "NONE" /\ txs'[x].state # "NONE"
                    /\ txs'[x].event = th[c].ev]_vars

\* C39: a wallet.withdrawal transaction whose attempt has failed has left no
\* PENDING or ACTIVE lien of its event behind; at any time its event holds
\* at most one such lien, and they reserve at most the withdrawal's amount.
C39_FailedAttemptLeavesNoLien ==
    \A t \in ExecEvents :
        txs[t].type = "wallet.withdrawal" =>
            /\ (th[t].attempt > 0 \/ txs[t].state = "FAILED") => OpenLiens(txs[t].event) = {}
            /\ Cardinality(OpenLiens(txs[t].event)) <= 1
            /\ SumAmounts(OpenLiens(txs[t].event)) <= payload[t].amount

\* C40: a lien whose persisted state is RELEASED or EXPIRED keeps that state
\* in every later step, whatever calls are in progress.
C40_TerminalLienStatesStay ==
    [][\A l \in LienIds :
          liens[l].state \in {"RELEASED", "EXPIRED"} =>
              liens'[l].state = liens[l].state]_vars
====
